---- MODULE Spec2Model ----
(***************************************************************************)
(* Environment lifecycle orchestrator and evaluation engine of OS-Symphony *)
(*                                                                         *)
(*   SpecProvider  WindowsDockerProvider / MacOSEnv: host-port leasing     *)
(*                 under the file lock of the class, container start/stop. *)
(*   SpecServer    agentcompass_server: /api/tasks admission through       *)
(*                 process_lock and the step loop of _run_task_sync.       *)
(*   SpecEval      DesktopEnv.evaluate (waa): getter/metric pipeline and   *)
(*                 its and/or combination.                                 *)
(***************************************************************************)
EXTENDS Integers, Sequences, FiniteSets, TLC

(***************************************************************************)
(* Bounds of the model.                                                    *)
(***************************************************************************)
\* worker processes on the host (uvicorn --workers)
NumWorkers == 2
\* size of the scaled host port space: ports are 0 .. PortLimit-1
PortLimit == 9
\* running containers the docker daemon accepts at one time
MaxContainers == 2
\* /api/tasks requests one worker receives
NumRequests == 2
\* largest max_steps a request asks for
MaxBudget == 2
\* most actions one agent.predict call returns
MaxActs == 2
\* a metric value v stands for the score v / MetricScale
MetricScale == 2
\* longest func list of an evaluator
MaxEntries == 2
\* most sockets psutil reports when one _get_available_port call is followed
MaxListening == 1
\* most ports excluded in such a call
MaxExclude == 1
\* most temporary scripts followed on the instance
MaxScripts == 2

(***************************************************************************)
(* Program constants.  Port numbers are scaled down, keeping the order of  *)
(* the source's start ports 3389 < 5000 < 5901 < 5910 < 9222 < 10022 and   *)
(* the scan limit (65535 in the source, PortLimit here) above all of them. *)
(***************************************************************************)
RdpStart == 0
ServerStart == 2
VncStart == 3
BrowserStart == 4
ChromiumStart == 6
SshStart == 7
\* try_times of start_emulator
TryTimes == 3
\* try_time of DesktopEnv.step (30 in the source, scaled)
ObsTryTime == 3
\* ServiceConfig.MAX_STEPS at process start (50 in the source, scaled)
DefaultMaxSteps == 2
\* process_lock is free
NoRequest == 0
\* a metric function raises
MetricRaises == -1
\* a metric function returns a value that is neither a number nor a bool
MetricNonNumeric == -2
\* Python None in a port field / the -1 MacOSEnv stores
NonePort == -1
\* an attribute that has not been assigned yet (brower_port before a start)
Unset == -2
\* self.container = None / a container handle
NoContainer == 0
HasContainer == 1
\* the file lock is free
NoHolder == 0

Workers == 1..NumWorkers
\* win_docker_port.lck of WindowsDockerProvider, mac_docker_port.lck of MacOSEnv
ProviderKinds == {"waa", "macos"}
PortSpace == 0..(PortLimit - 1)
Requests == 1..NumRequests

VARIABLES
    \* ---- provider / host state
    providerKind,   \* per worker: "waa" (WindowsDockerProvider) or "macos"
                    \* (MacOSEnv)
    usedSys,        \* ports of listening sockets that are not docker's
    host,           \* containers known to the docker daemon
    lock,           \* per lock file: the worker holding it, or NoHolder
    pPc,            \* per worker: position inside start/stop
    attempt,        \* per worker: loop index i of start_emulator
    container,      \* per worker: self.container (an id or NoContainer)
    ports,          \* per worker: the port fields of the provider
    connected,      \* per worker: MacOSEnv holds an ssh/sftp client
    result,         \* per worker: how the last provider call ended
    backup,         \* per worker: what lies at path_to_vm_backup
    storage,        \* per worker: the file tree at path_to_vm
    snap,           \* per worker: the trees the last two restores left
    session         \* per worker: the ports DesktopEnv and its controllers use

    ,
    \* ---- one worker process of agentcompass_server
    benchmark,      \* ServiceConfig.BENCHMARK: the class of worker_env
    args,           \* the module global `args` read by the agent factory
    maxActs,        \* most actions a prediction of the agents at hand returns
    MAX_STEPS,      \* ServiceConfig.MAX_STEPS
    process_lock,   \* holder of process_lock, NoRequest when free
    rPc,            \* per request: position in execute_single_task
    req,            \* per request: the request body
    step_idx,       \* per request: step_idx of _run_task_sync
    done,           \* per request: done of _run_task_sync
    actions,        \* per request: actions of the prediction not yet executed
    trajectory,     \* per request: trajectory of _run_task_sync
    calls,          \* per request: calls made to agent and environment
    runOutcome,     \* per request: how _run_task_sync ended
    response        \* per request: the response of execute_single_task

    ,
    \* ---- DesktopEnv.evaluate
    evaluator,      \* the evaluator of the task and what its functions do
    ePc,            \* "ready" before evaluate is called, "done" after
    score           \* what evaluate returned or raised

    ,
    \* ---- one call of _get_available_port
    scanIn,         \* its arguments start_port and exclude_ports
    scanOut         \* the port it returned, or that it raised

    ,
    \* ---- one call of DesktopEnv.step / MacOSEnv.step
    stepIn,         \* the environment, its action_space and the action
    stepOut,        \* done as returned, and whether the instance was sent
                    \* an action-execution command
    \* ---- one GET /health request to the worker
    health          \* whether it was answered, and what ran meanwhile

    ,
    \* ---- the remote channel of one MacOSEnv
    chan,           \* self.ssh_client and self.sftp_client
    scripts,        \* temporary scripts left in /tmp of the instance
    opOut           \* the last remote operation and how it went

    ,
    \* ---- one call of MacOSEnv.evaluate_task
    mEval,          \* self.task.evaluator and what its getters and metrics do
    mOut            \* what the call returned or raised

fvars == <<backup, storage, snap>>

pvars == <<providerKind, usedSys, host, lock, pPc, attempt, container, ports,
           connected, result, fvars, session>>

svars == <<benchmark, args, maxActs, MAX_STEPS, process_lock, rPc, req,
           step_idx, done, actions, trajectory, calls, runOutcome, response>>

evars == <<evaluator, ePc, score>>

qvars == <<scanIn, scanOut>>

\* the calls of the environments that are followed on their own
tvars == <<stepIn, stepOut>>
rvars == <<chan, scripts, opOut>>
mvars == <<mEval, mOut>>
cvars == <<tvars, health, rvars, mvars>>

vars == <<pvars, svars, evars, qvars, cvars>>

(***************************************************************************)
(* Exceptions.  Every exception the modelled calls raise derives from      *)
(* Python's Exception; KeyboardInterrupt/SystemExit are not modelled.      *)
(***************************************************************************)
ExceptionClasses ==
    {"Exception", "RuntimeError", "TimeoutError", "Timeout", "APIError",
     "AssertionError", "NameError", "AttributeError", "KeyError",
     "TypeError", "ValueError", "FileNotFoundError", "UnboundLocalError",
     "ZeroDivisionError"}

\* `except Exception as e` of stop_emulator / _close_env
StopCatchesNarrow(e) == e = "Timeout"
StopCatches(e) == e \in ExceptionClasses

(***************************************************************************)
(* PortAllocator                                                           *)
(***************************************************************************)
\* host holds the running containers: client.containers.list()
DockerPorts == UNION {c.ports : c \in host}

get_used_ports_system_only == usedSys
\* _get_used_ports: system_ports | docker_ports
get_used_ports == usedSys \cup DockerPorts

\* the while loop of _get_available_port; PortLimit stands for the
\* RuntimeError("No free ports available ...")
RECURSIVE ScanPortUsedOnly(_, _, _)
ScanPortUsedOnly(port, used_ports, exclude_ports) ==
    IF port < PortLimit
    THEN IF port \notin used_ports
         THEN port
         ELSE ScanPortUsedOnly(port + 1, used_ports, exclude_ports)
    ELSE PortLimit

RECURSIVE ScanPort(_, _, _)
ScanPort(port, used_ports, exclude_ports) ==
    IF port < PortLimit
    THEN IF port \notin used_ports /\ port \notin exclude_ports
         THEN port
         ELSE ScanPort(port + 1, used_ports, exclude_ports)
    ELSE PortLimit

get_available_port_unexcluded(start_port, exclude_ports) ==
    ScanPort(start_port, get_used_ports, {})
get_available_port(start_port, exclude_ports) ==
    ScanPort(start_port, get_used_ports, exclude_ports)

NoFreePort(p) == p = PortLimit

\* no call of _get_available_port is followed on its own
NoScanIn == [start_port |-> 0, exclude_ports |-> {}]
NoScanOut == [kind |-> "none", port |-> NonePort]

IdleScan ==
    /\ scanIn = NoScanIn
    /\ scanOut = NoScanOut

\* no call of step is followed on its own
NoStepIn ==
    [env |-> "waa", action_space |-> "pyautogui", action |-> "WAIT",
     task_loaded |-> TRUE, empties |-> 0]
NoObs == [captures |-> 0, delays |-> 0, empty |-> TRUE]
NoStepOut == [kind |-> "none", done |-> "False", sent |-> FALSE, obs |-> NoObs]

IdleStep ==
    /\ stepIn = NoStepIn
    /\ stepOut = NoStepOut

\* no /health request has been made
NoHealth == [state |-> "none", busy |-> FALSE]

IdleHealth == health = NoHealth

\* MacOSEnv.__init__: no client; no remote operation has been called
NoChan == [ssh |-> "none", sftp |-> "none"]
NoOp ==
    [op |-> "none", kind |-> "none", status |-> "", dropped |-> FALSE,
     conn_ok |-> FALSE, drop_at |-> "never", live |-> FALSE, left |-> FALSE]

IdleChannel ==
    /\ chan = NoChan
    /\ scripts = 0
    /\ opOut = NoOp

\* no task is loaded and evaluate_task has not been called
NoMacEval == [present |-> FALSE, lengths_ok |-> TRUE, conj |-> "and",
              entries |-> <<>>]
NoMacOut == [kind |-> "none", value |-> FALSE]

IdleMacEval ==
    /\ mEval = NoMacEval
    /\ mOut = NoMacOut

IdleCalls ==
    /\ IdleStep
    /\ IdleHealth
    /\ IdleChannel
    /\ IdleMacEval

\* one call of _get_available_port(start_port, exclude_ports): the port it
\* returns, or the RuntimeError it raises
GetAvailablePort ==
    /\ scanOut.kind = "none"
    /\ LET p == get_available_port(scanIn.start_port, scanIn.exclude_ports)
       IN  scanOut' = IF NoFreePort(p)
                      THEN [kind |-> "raised", port |-> NonePort]
                      ELSE [kind |-> "returned", port |-> p]
    /\ UNCHANGED scanIn

(***************************************************************************)
(* Docker daemon                                                           *)
(***************************************************************************)
\* the record of the container worker w holds a handle of
Held(w) == {c \in host : c.owner = w /\ c.held}

\* docker binds a host port only if nothing else listens on it
DockerCanBind(ps) == ps \cap (usedSys \cup DockerPorts) = {}

\* client.containers.run succeeds
CanLaunch(ps) == DockerCanBind(ps) /\ Cardinality(host) < MaxContainers

\* what container.stop / container.remove can do to the held container:
\*   "ok"            stopped and removed
\*   "stop_error"    stop raised, the container keeps running
\*   "remove_error"  stopped (its ports are released), remove raised
StopOutcomes == {"ok", "stop_error", "remove_error"}

\* the running containers after stop_emulator of worker w
HostAfterStop(w, outcome) ==
    IF outcome = "stop_error"
    THEN (host \ Held(w)) \cup {[c EXCEPT !.held = FALSE] : c \in Held(w)}
    ELSE host \ Held(w)

(***************************************************************************)
(* stop_emulator / _close_env                                              *)
(***************************************************************************)
HandleAfterStopNoFinally(id, outcome) ==
    IF outcome = "ok" THEN NoContainer ELSE id
\* finally: self.container = None
HandleAfterStop(id, outcome) == NoContainer

\* the port fields after stop_emulator (brower_port is not cleared)
WaaPortsAfterStop(p, id) ==
    IF id = NoContainer THEN p
    ELSE [p EXCEPT !.server_port = NonePort, !.rdp_port = NonePort,
                   !.chromium_port = NonePort]

MacPortsAfterStop(p, id) ==
    IF id = NoContainer THEN p
    ELSE [p EXCEPT !.ssh_port = NonePort, !.vnc_port = NonePort]

\* whether stop_emulator / _close_env raises: the docker errors are APIError
StopRaises(id, outcome) ==
    id # NoContainer /\ outcome # "ok" /\ ~StopCatches("APIError")

\* the whole of stop_emulator for worker w, the docker calls ending `outcome`
stop_emulator(w, outcome) ==
    /\ host' = HostAfterStop(w, outcome)
    /\ container' = [container EXCEPT ![w] =
                        IF container[w] = NoContainer THEN NoContainer
                        ELSE HandleAfterStop(container[w], outcome)]
    /\ ports' = [ports EXCEPT ![w] = WaaPortsAfterStop(ports[w], container[w])]
    /\ UNCHANGED connected

\* the whole of _close_env: close_connection, then stop and remove
close_env(w, outcome) ==
    /\ connected' = [connected EXCEPT ![w] = FALSE]
    /\ host' = HostAfterStop(w, outcome)
    /\ container' = [container EXCEPT ![w] =
                        IF container[w] = NoContainer THEN NoContainer
                        ELSE HandleAfterStop(container[w], outcome)]
    /\ ports' = [ports EXCEPT ![w] = MacPortsAfterStop(ports[w], container[w])]

(***************************************************************************)
(* WindowsDockerProvider                                                   *)
(*   pPc: "idle" no call in progress, "restore" revert_to_snapshot after   *)
(*   its stop, "acquire" before `with lock`, "alloc" and "launch" inside   *)
(*   the lock, "wait" readiness probe, "cleanup" the except handler.       *)
(*   result: "none", "started", "start_raised", "stopped", "stop_raised".  *)
(***************************************************************************)
\* FileLock.acquire: the lock file is held by no other process
LockFreeAlways(k) == TRUE
LockFree(k) == lock[k] = NoHolder

\* the end of `with lock:`, on return and on an exception alike
ReleaseLockSkipped(l, k) == l
ReleaseLock(l, k) == [l EXCEPT ![k] = NoHolder]

\* the ports one start has chosen (fields that hold a port)
FieldPorts(p) ==
    {p.server_port, p.rdp_port, p.chromium_port, p.brower_port,
     p.ssh_port, p.vnc_port} \cap PortSpace

\* revert_to_snapshot, first step: self.stop_emulator()
WaaRevertStop(w, outcome) ==
    /\ providerKind[w] = "waa" /\ pPc[w] = "idle"
    /\ stop_emulator(w, outcome)
    /\ IF StopRaises(container[w], outcome)
       THEN /\ result' = [result EXCEPT ![w] = "stop_raised"]
            /\ UNCHANGED pPc
       ELSE /\ result' = [result EXCEPT ![w] = "none"]
            /\ pPc' = [pPc EXCEPT ![w] = "restore"]
    /\ UNCHANGED <<providerKind, usedSys, lock, attempt>>
    /\ UNCHANGED fvars
    /\ UNCHANGED session

(***************************************************************************)
(* The file trees of revert_to_snapshot.  A tree is named by what it holds *)
(* relative to the backup: "absent" (no such path), "empty" (a directory   *)
(* without entries), "copy" (the entries of the backup directory and       *)
(* nothing else), "nested" (a directory that was not deleted, with the     *)
(* backup copied into it as a subdirectory), "partial" (what a failed cp   *)
(* left) and "dirty" (anything else, such as a tree a virtual machine has  *)
(* written to or a tree rmtree deleted only in part).                      *)
(***************************************************************************)
Trees == {"absent", "empty", "copy", "nested", "partial", "dirty"}

\* path_to_vm_backup is a directory, a single file, or does not exist
BackupKinds == {"dir", "file", "missing"}

\* if os.path.exists(path_to_vm): shutil.rmtree(path_to_vm,
\* ignore_errors=True); an error of the deletion is ignored and leaves the
\* rest of the tree in place
rmtreeSkipped(tree, rm_ok) == tree
rmtree(tree, rm_ok) ==
    IF tree = "absent" \/ rm_ok THEN "absent"
    ELSE IF tree = "empty" THEN "empty" ELSE "dirty"

\* the tree at path_to_vm after the try block of revert_to_snapshot has run
\* without an exception: cp -r creates the target when it is absent and
\* copies into it when it exists; a backup that is a single file is not
\* copied; without a backup the directory is created empty
RestoredTreeUntouched(bk, tree, rm_ok) == tree
RestoredTree(bk, tree, rm_ok) ==
    LET t == rmtree(tree, rm_ok)
    IN  CASE bk = "dir" -> IF t = "absent" THEN "copy" ELSE "nested"
          [] bk = "file" -> t
          [] bk = "missing" -> IF t = "absent" THEN "empty" ELSE t

\* the try block raises: subprocess.check_call of cp fails; nothing else in
\* the block raises, a missing backup is answered by os.makedirs
RestoreRaisesOnMissing(bk, cp_ok) == bk = "missing" \/ (bk = "dir" /\ ~cp_ok)
RestoreRaises(bk, cp_ok) == bk = "dir" /\ ~cp_ok

\* the deletion met no ignored error
Deleted(tree, rm_ok) == tree = "absent" \/ rm_ok

NoSnap == [prev |-> "none", cur |-> "none", prevOk |-> FALSE, curOk |-> FALSE]

\* revert_to_snapshot, second step: rmtree and cp -r --sparse=always, then
\* start_emulator; a failed copy is logged and raised again
WaaRestore(w, cp_ok, rm_ok) ==
    /\ providerKind[w] = "waa" /\ pPc[w] = "restore"
    /\ backup[w] # "dir" => cp_ok
    /\ IF RestoreRaises(backup[w], cp_ok)
       THEN /\ pPc' = [pPc EXCEPT ![w] = "idle"]
            /\ result' = [result EXCEPT ![w] = "start_raised"]
            /\ storage' = [storage EXCEPT ![w] = "partial"]
            /\ UNCHANGED snap
       ELSE /\ pPc' = [pPc EXCEPT ![w] = "acquire"]
            /\ storage' = [storage EXCEPT ![w] =
                              RestoredTree(backup[w], storage[w], rm_ok)]
            /\ snap' = [snap EXCEPT ![w] =
                           [prev |-> snap[w].cur, prevOk |-> snap[w].curOk,
                            cur |-> RestoredTree(backup[w], storage[w], rm_ok),
                            curOk |-> Deleted(storage[w], rm_ok)]]
            /\ UNCHANGED result
    /\ UNCHANGED <<providerKind, usedSys, host, lock, attempt, container,
                   ports, connected, backup>>
    /\ UNCHANGED session

\* for i in range(try_times): after attempt i there is another one
AnotherAttemptAlways(i) == TRUE
AnotherAttempt(i) == i + 1 < TryTimes

\* with lock: entered
WaaAcquireLock(w) ==
    /\ providerKind[w] = "waa" /\ pPc[w] = "acquire"
    /\ LockFree("waa")
    /\ lock' = [lock EXCEPT !["waa"] = w]
    /\ pPc' = [pPc EXCEPT ![w] = "alloc"]
    /\ UNCHANGED <<providerKind, usedSys, host, attempt, container, ports,
                   connected, result>>
    /\ UNCHANGED fvars
    /\ UNCHANGED session

\* with lock: filelock.Timeout after LOCK_TIMEOUT seconds, caught by the
\* except Exception of the attempt, whose stop_emulator finds no container
\* (none is held while the lock is awaited); then the next i, or the final
\* raise
WaaLockTimeout(w) ==
    /\ providerKind[w] = "waa" /\ pPc[w] = "acquire"
    /\ lock["waa"] \notin {NoHolder, w}
    /\ container[w] = NoContainer
    /\ IF AnotherAttempt(attempt[w])
       THEN /\ attempt' = [attempt EXCEPT ![w] = @ + 1]
            /\ UNCHANGED <<pPc, result>>
       ELSE /\ pPc' = [pPc EXCEPT ![w] = "idle"]
            /\ attempt' = [attempt EXCEPT ![w] = 0]
            /\ result' = [result EXCEPT ![w] = "start_raised"]
    /\ UNCHANGED <<providerKind, usedSys, host, lock, container, ports,
                   connected>>
    /\ UNCHANGED fvars
    /\ UNCHANGED session

\* the four _get_available_port calls; a RuntimeError leaves the fields
\* assigned so far and leaves the with block
WaaAllocPorts(w) ==
    /\ providerKind[w] = "waa" /\ pPc[w] = "alloc"
    /\ LET sp == get_available_port(ServerStart, {})
           rp == get_available_port(RdpStart, {sp})
           cp == get_available_port(ChromiumStart, {sp, rp})
           bp == get_available_port(BrowserStart, {sp, rp, cp})
           p0 == ports[w]
           p1 == IF NoFreePort(sp) THEN p0 ELSE [p0 EXCEPT !.server_port = sp]
           p2 == IF NoFreePort(sp) \/ NoFreePort(rp) THEN p1
                 ELSE [p1 EXCEPT !.rdp_port = rp]
           p3 == IF NoFreePort(sp) \/ NoFreePort(rp) \/ NoFreePort(cp) THEN p2
                 ELSE [p2 EXCEPT !.chromium_port = cp]
           failed == NoFreePort(sp) \/ NoFreePort(rp) \/ NoFreePort(cp)
                        \/ NoFreePort(bp)
           p4 == IF failed THEN p3 ELSE [p3 EXCEPT !.brower_port = bp]
       IN  /\ ports' = [ports EXCEPT ![w] = p4]
           /\ IF failed
              THEN /\ lock' = ReleaseLock(lock, "waa")
                   /\ pPc' = [pPc EXCEPT ![w] = "cleanup"]
              ELSE /\ pPc' = [pPc EXCEPT ![w] = "launch"]
                   /\ UNCHANGED lock
    /\ UNCHANGED <<providerKind, usedSys, host, attempt, container, connected,
                   result>>
    /\ UNCHANGED fvars
    /\ UNCHANGED session

\* self.container = self.client.containers.run(...)
WaaLaunch(w) ==
    /\ providerKind[w] = "waa" /\ pPc[w] = "launch"
    /\ CanLaunch(FieldPorts(ports[w]))
    /\ host' = host \cup {[owner |-> w, ports |-> FieldPorts(ports[w]),
                           held |-> TRUE]}
    /\ container' = [container EXCEPT ![w] = HasContainer]
    /\ pPc' = [pPc EXCEPT ![w] = "wait"]
    /\ storage' = [storage EXCEPT ![w] = "dirty"]
    /\ UNCHANGED <<providerKind, usedSys, lock, attempt, ports, connected,
                   result, backup, snap>>
    /\ UNCHANGED session

\* containers.run raises (image, daemon or port-bind error)
WaaLaunchFail(w) ==
    /\ providerKind[w] = "waa" /\ pPc[w] = "launch"
    /\ lock' = ReleaseLock(lock, "waa")
    /\ pPc' = [pPc EXCEPT ![w] = "cleanup"]
    /\ UNCHANGED <<providerKind, usedSys, host, attempt, container, ports,
                   connected, result>>
    /\ UNCHANGED fvars
    /\ UNCHANGED session

\* WindowsDockerProvider.get_connection_info
get_connection_info(w) ==
    [server_port |-> ports[w].server_port,
     rdp_port |-> ports[w].rdp_port,
     chromium_port |-> ports[w].chromium_port,
     browser_port |-> ports[w].brower_port]

\* reading self.brower_port before start_emulator has assigned it raises
\* AttributeError: __init__ does not set it
get_connection_info_raises(w) == ports[w].brower_port = Unset

\* PythonController / SetupController.update_connection_info: the
\* controller takes the ports it is handed in place of the ones it had
update_connection_info(server_port, chromium_port) ==
    [server_port |-> server_port, chromium_port |-> chromium_port]

\* DesktopEnv.reset after revert_to_snapshot has returned: the fields of the
\* environment and of its two controllers (PythonController is handed no
\* chromium port)
UpdatedSessionKept(s, info) == s
UpdatedSession(s, info) ==
    [server_port |-> info.server_port,
     chromium_port |-> info.chromium_port,
     controller |->
         [s.controller EXCEPT !.server_port =
             update_connection_info(info.server_port,
                                    s.controller.chromium_port).server_port],
     setup_controller |->
         update_connection_info(info.server_port, info.chromium_port)]

\* DesktopEnv.__init__: the fixed ports 5000 and 9222, handed to both
\* controllers
InitSession ==
    [server_port |-> ServerStart, chromium_port |-> ChromiumStart,
     controller |-> [server_port |-> ServerStart, chromium_port |-> NonePort],
     setup_controller |->
         [server_port |-> ServerStart, chromium_port |-> ChromiumStart]]

\* _wait_for_server returns True: start_emulator and revert_to_snapshot
\* return, and DesktopEnv.reset, their only caller, reads the connection
\* info of the provider and hands it to the controllers
WaaReady(w) ==
    /\ providerKind[w] = "waa" /\ pPc[w] = "wait"
    /\ lock' = ReleaseLock(lock, "waa")
    /\ pPc' = [pPc EXCEPT ![w] = "idle"]
    /\ attempt' = [attempt EXCEPT ![w] = 0]
    /\ result' = [result EXCEPT ![w] = "started"]
    /\ session' = [session EXCEPT ![w] =
                      UpdatedSession(@, get_connection_info(w))]
    /\ UNCHANGED <<providerKind, usedSys, host, container, ports, connected>>
    /\ UNCHANGED fvars

\* _wait_for_server raises TimeoutError
WaaWaitTimeout(w) ==
    /\ providerKind[w] = "waa" /\ pPc[w] = "wait"
    /\ lock' = ReleaseLock(lock, "waa")
    /\ pPc' = [pPc EXCEPT ![w] = "cleanup"]
    /\ UNCHANGED <<providerKind, usedSys, host, attempt, container, ports,
                   connected, result>>
    /\ UNCHANGED fvars
    /\ UNCHANGED session

\* except Exception: self.stop_emulator(); next i, or the final raise
WaaCleanup(w, outcome) ==
    /\ providerKind[w] = "waa" /\ pPc[w] = "cleanup"
    /\ stop_emulator(w, outcome)
    /\ IF StopRaises(container[w], outcome)
       THEN /\ pPc' = [pPc EXCEPT ![w] = "idle"]
            /\ attempt' = [attempt EXCEPT ![w] = 0]
            /\ result' = [result EXCEPT ![w] = "stop_raised"]
       ELSE IF AnotherAttempt(attempt[w])
       THEN /\ pPc' = [pPc EXCEPT ![w] = "acquire"]
            /\ attempt' = [attempt EXCEPT ![w] = @ + 1]
            /\ UNCHANGED result
       ELSE /\ pPc' = [pPc EXCEPT ![w] = "idle"]
            /\ attempt' = [attempt EXCEPT ![w] = 0]
            /\ result' = [result EXCEPT ![w] = "start_raised"]
    /\ UNCHANGED <<providerKind, usedSys, lock>>
    /\ UNCHANGED fvars
    /\ UNCHANGED session

\* DesktopEnv.close: self.provider.stop_emulator()
WaaClose(w, outcome) ==
    /\ providerKind[w] = "waa" /\ pPc[w] = "idle"
    /\ stop_emulator(w, outcome)
    /\ result' = [result EXCEPT ![w] =
                     IF StopRaises(container[w], outcome)
                     THEN "stop_raised" ELSE "stopped"]
    /\ UNCHANGED <<providerKind, usedSys, lock, pPc, attempt>>
    /\ UNCHANGED fvars
    /\ UNCHANGED session

(***************************************************************************)
(* MacOSEnv                                                                *)
(***************************************************************************)
\* _reset_env, first step: self._close_env()
MacResetEnv(w, outcome) ==
    /\ providerKind[w] = "macos" /\ pPc[w] = "idle"
    /\ close_env(w, outcome)
    /\ IF StopRaises(container[w], outcome)
       THEN /\ result' = [result EXCEPT ![w] = "stop_raised"]
            /\ UNCHANGED pPc
       ELSE /\ result' = [result EXCEPT ![w] = "none"]
            /\ pPc' = [pPc EXCEPT ![w] = "acquire"]
    /\ UNCHANGED <<providerKind, usedSys, lock, attempt>>
    /\ UNCHANGED fvars
    /\ UNCHANGED session

\* with lock: entered
MacAcquireLock(w) ==
    /\ providerKind[w] = "macos" /\ pPc[w] = "acquire"
    /\ LockFree("macos")
    /\ lock' = [lock EXCEPT !["macos"] = w]
    /\ pPc' = [pPc EXCEPT ![w] = "alloc"]
    /\ UNCHANGED <<providerKind, usedSys, host, attempt, container, ports,
                   connected, result>>
    /\ UNCHANGED fvars
    /\ UNCHANGED session

\* with lock: filelock.Timeout propagates out of _reset_env
MacLockTimeout(w) ==
    /\ providerKind[w] = "macos" /\ pPc[w] = "acquire"
    /\ lock["macos"] \notin {NoHolder, w}
    /\ pPc' = [pPc EXCEPT ![w] = "idle"]
    /\ result' = [result EXCEPT ![w] = "start_raised"]
    /\ UNCHANGED <<providerKind, usedSys, host, lock, attempt, container,
                   ports, connected>>
    /\ UNCHANGED fvars
    /\ UNCHANGED session

\* the two _get_available_port calls; a RuntimeError propagates
MacAllocPorts(w) ==
    /\ providerKind[w] = "macos" /\ pPc[w] = "alloc"
    /\ LET sp == get_available_port(SshStart, {})
           vp == get_available_port(VncStart, {sp})
           p0 == ports[w]
           p1 == IF NoFreePort(sp) THEN p0 ELSE [p0 EXCEPT !.ssh_port = sp]
           failed == NoFreePort(sp) \/ NoFreePort(vp)
           p2 == IF failed THEN p1 ELSE [p1 EXCEPT !.vnc_port = vp]
       IN  /\ ports' = [ports EXCEPT ![w] = p2]
           /\ IF failed
              THEN /\ lock' = ReleaseLock(lock, "macos")
                   /\ pPc' = [pPc EXCEPT ![w] = "idle"]
                   /\ result' = [result EXCEPT ![w] = "start_raised"]
              ELSE /\ pPc' = [pPc EXCEPT ![w] = "launch"]
                   /\ UNCHANGED <<lock, result>>
    /\ UNCHANGED <<providerKind, usedSys, host, attempt, container, connected>>
    /\ UNCHANGED fvars
    /\ UNCHANGED session

\* self.container = self.client.containers.run(...); the with block ends
MacLaunch(w) ==
    /\ providerKind[w] = "macos" /\ pPc[w] = "launch"
    /\ CanLaunch(FieldPorts(ports[w]))
    /\ host' = host \cup {[owner |-> w, ports |-> FieldPorts(ports[w]),
                           held |-> TRUE]}
    /\ container' = [container EXCEPT ![w] = HasContainer]
    /\ lock' = ReleaseLock(lock, "macos")
    /\ pPc' = [pPc EXCEPT ![w] = "wait"]
    /\ UNCHANGED <<providerKind, usedSys, attempt, ports, connected, result>>
    /\ UNCHANGED fvars
    /\ UNCHANGED session

\* containers.run raises: self._close_env(); raise e
MacLaunchFail(w, outcome) ==
    /\ providerKind[w] = "macos" /\ pPc[w] = "launch"
    /\ close_env(w, outcome)
    /\ lock' = ReleaseLock(lock, "macos")
    /\ pPc' = [pPc EXCEPT ![w] = "idle"]
    /\ result' = [result EXCEPT ![w] =
                     IF StopRaises(container[w], outcome)
                     THEN "stop_raised" ELSE "start_raised"]
    /\ UNCHANGED <<providerKind, usedSys, attempt>>
    /\ UNCHANGED fvars
    /\ UNCHANGED session

\* _wait_for_ssh_ready: connect_ssh succeeds
MacSshReady(w) ==
    /\ providerKind[w] = "macos" /\ pPc[w] = "wait"
    /\ connected' = [connected EXCEPT ![w] = TRUE]
    /\ pPc' = [pPc EXCEPT ![w] = "idle"]
    /\ result' = [result EXCEPT ![w] = "started"]
    /\ UNCHANGED <<providerKind, usedSys, host, lock, attempt, container,
                   ports>>
    /\ UNCHANGED fvars
    /\ UNCHANGED session

\* _wait_for_ssh_ready: timeout, self._close_env(), raise TimeoutError
MacSshTimeout(w, outcome) ==
    /\ providerKind[w] = "macos" /\ pPc[w] = "wait"
    /\ close_env(w, outcome)
    /\ pPc' = [pPc EXCEPT ![w] = "idle"]
    /\ result' = [result EXCEPT ![w] =
                     IF StopRaises(container[w], outcome)
                     THEN "stop_raised" ELSE "start_raised"]
    /\ UNCHANGED <<providerKind, usedSys, lock, attempt>>
    /\ UNCHANGED fvars
    /\ UNCHANGED session

\* DesktopEnv.close: self.macos_env._close_env()
MacClose(w, outcome) ==
    /\ providerKind[w] = "macos" /\ pPc[w] = "idle"
    /\ close_env(w, outcome)
    /\ result' = [result EXCEPT ![w] =
                     IF StopRaises(container[w], outcome)
                     THEN "stop_raised" ELSE "stopped"]
    /\ UNCHANGED <<providerKind, usedSys, lock, pPc, attempt>>
    /\ UNCHANGED fvars
    /\ UNCHANGED session

(***************************************************************************)
(* agentcompass_server: _create_agent_from_request                         *)
(***************************************************************************)
\* llm_config.model_name values of the requests
ModelNames == {"", "ui-tars"}

\* the family names a model name contains ("x" in model_name.lower())
Families(name) ==
    CASE name = "glm-4v"  -> {"glm"}
      [] name = "ui-tars" -> {"tar"}
      [] OTHER             -> {}

\* the module global `args` as the factory finds it: not defined (the module
\* is imported by uvicorn, not run as __main__), the argparse namespace of
\* __main__ (which has no attribute model), or a namespace a launcher has
\* given a model attribute
ArgsUndefined == [state |-> "undefined", model |-> ""]
ArgsNoModel == [state |-> "no_model", model |-> ""]
ArgsChoices ==
    {ArgsUndefined, ArgsNoModel} \cup
    {[state |-> "set", model |-> m] : m \in {"ui-tars", "glm-4v"}}

\* evaluating args.model
ArgsModelError ==
    CASE args.state = "undefined" -> "NameError"
      [] args.state = "no_model"  -> "AttributeError"
      [] OTHER                    -> "none"

\* "agent" when an agent is returned, else the class of the exception raised:
\* the final `if "tar" in args.model.lower()` is evaluated for every model
create_agent_from_request(model_name) ==
    IF model_name = "" THEN "Exception"
    ELSE IF ArgsModelError # "none" THEN ArgsModelError
    ELSE IF "tar" \in Families(args.model) THEN "agent"
    ELSE "Exception"

(***************************************************************************)
(* agentcompass_server: execute_single_task and _run_task_sync             *)
(*   rPc: "absent" never sent, "new" sent, "waitlock" before               *)
(*   `async with process_lock`, "start" / "reset" / "loop" / "acting" /    *)
(*   "evaluate" inside _run_task_sync, "returned" the thread has ended,    *)
(*   "responded" the response is sent.                                     *)
(***************************************************************************)
Actions == {"click", "DONE", "FAIL"}
TerminalActions == {"DONE", "FAIL"}

\* DesktopEnv.step: done is set by the special actions FAIL and DONE
StepDoneNever(action) == FALSE
StepDone(action) == action \in TerminalActions

\* the action lists agent.predict can return
Predictions(n) == UNION {[1..k -> Actions] : k \in 0..n}

NoCalls == [predict |-> 0, step |-> 0, evaluate |-> 0]
NoOutcome == [kind |-> "none", score |-> 0, error |-> "", ntraj |-> 0]
NoResponse == [status |-> "none", score |-> 0, error |-> "",
               has_trajectory |-> FALSE]
NoReq == [max_steps |-> 0, model_name |-> "", well_formed |-> TRUE]

\* `except Exception as e` of execute_single_task
HandlerCatchesNarrow(e) == e \in {"Exception", "KeyError"}
HandlerCatches(e) == e \in ExceptionClasses

\* asyncio.Lock: `async with process_lock` is entered when it is free
ProcessLockFreeAlways == TRUE
ProcessLockFree == process_lock = NoRequest

\* the end of `async with process_lock`, whether _run_task_sync returned or
\* raised (kind): the holder r gives the lock up
LockAfterTaskKeptOnError(l, r, kind) ==
    IF l = r /\ kind = "returned" THEN NoRequest ELSE l
LockAfterTask(l, r, kind) == IF l = r THEN NoRequest ELSE l

\* the while condition of the step loop
LoopContinuesOffByOne(d, i) == ~d /\ i <= MAX_STEPS
LoopContinues(d, i) == ~d /\ i < MAX_STEPS

\* if done: break
BreakOnDoneNever(d) == FALSE
BreakOnDone(d) == d

\* step_idx += 1
NextStepIdxSkipping(i) == i + 2
NextStepIdxStuck(i) == i
NextStepIdx(i) == i + 1

\* _run_task_sync raises e: the thread ends, the handler will see e
RunRaises(r, e) ==
    /\ rPc' = [rPc EXCEPT ![r] = "returned"]
    /\ runOutcome' = [runOutcome EXCEPT ![r] =
                      [kind |-> "raised", score |-> 0, error |-> e,
                       ntraj |-> Len(trajectory[r])]]

\* the handler starts on a request (requests are numbered in the order the
\* event loop starts on them); request.json(), task_id, makedirs
Arrive(r, body) ==
    /\ rPc[r] = "new"
    /\ \A q \in Requests : q < r => rPc[q] # "new"
    /\ req' = [req EXCEPT ![r] = IF body.well_formed THEN body ELSE NoReq]
    /\ IF body.well_formed
       THEN /\ rPc' = [rPc EXCEPT ![r] = "waitlock"]
            /\ UNCHANGED response
       ELSE \* request_data["params"] raises KeyError inside the try
            /\ rPc' = [rPc EXCEPT ![r] = "responded"]
            /\ response' = [response EXCEPT ![r] =
                  IF HandlerCatches("KeyError")
                  THEN [status |-> "failed", score |-> 0, error |-> "KeyError",
                        has_trajectory |-> FALSE]
                  ELSE [status |-> "unhandled", score |-> 0,
                        error |-> "KeyError", has_trajectory |-> FALSE]]
    /\ UNCHANGED <<benchmark, args, maxActs, MAX_STEPS, process_lock,
                   step_idx, done, actions, trajectory, calls, runOutcome>>

\* async with process_lock: acquired; run_in_threadpool(_run_task_sync)
AcquireProcessLock(r) ==
    /\ rPc[r] = "waitlock"
    /\ ProcessLockFree
    /\ process_lock' = r
    /\ rPc' = [rPc EXCEPT ![r] = "start"]
    /\ UNCHANGED <<benchmark, args, maxActs, MAX_STEPS, req, step_idx, done,
                   actions, trajectory, calls, runOutcome, response>>

\* _run_task_sync up to the agent: the isinstance assertion, the max_steps
\* override of ServiceConfig.MAX_STEPS, _create_agent_from_request
RunStart(r) ==
    /\ rPc[r] = "start"
    /\ IF benchmark # "osworld"
       THEN RunRaises(r, "AssertionError") /\ UNCHANGED MAX_STEPS
       ELSE /\ MAX_STEPS' = IF req[r].max_steps # 0 THEN req[r].max_steps
                            ELSE MAX_STEPS
            /\ IF create_agent_from_request(req[r].model_name) = "agent"
               THEN /\ rPc' = [rPc EXCEPT ![r] = "reset"]
                    /\ UNCHANGED runOutcome
               ELSE RunRaises(r, create_agent_from_request(req[r].model_name))
    /\ UNCHANGED <<benchmark, args, maxActs, process_lock, req, step_idx,
                   done, actions, trajectory, calls, response>>

\* agent.reset(); worker_env.reset(task_config); obs = worker_env._get_obs();
\* done = False; step_idx = 0; trajectory = []
RunReset(r, ok) ==
    /\ rPc[r] = "reset"
    /\ IF ok
       THEN /\ rPc' = [rPc EXCEPT ![r] = "loop"]
            /\ done' = [done EXCEPT ![r] = FALSE]
            /\ step_idx' = [step_idx EXCEPT ![r] = 0]
            /\ trajectory' = [trajectory EXCEPT ![r] = <<>>]
            /\ UNCHANGED runOutcome
       ELSE /\ RunRaises(r, "Exception")
            /\ UNCHANGED <<done, step_idx, trajectory>>
    /\ UNCHANGED <<benchmark, args, maxActs, MAX_STEPS, process_lock, req,
                   actions, calls, response>>

\* while not done and step_idx < MAX_STEPS: agent.predict(instruction, obs)
Predict(r, acts, ok) ==
    /\ rPc[r] = "loop"
    /\ LoopContinues(done[r], step_idx[r])
    /\ calls' = [calls EXCEPT ![r].predict = @ + 1]
    /\ IF ~ok
       THEN RunRaises(r, "Exception") /\ UNCHANGED <<actions, step_idx>>
       ELSE IF acts = <<>>
       THEN \* the for loop has nothing to do: step_idx += 1
            /\ step_idx' = [step_idx EXCEPT ![r] = NextStepIdx(@)]
            /\ UNCHANGED <<rPc, runOutcome, actions>>
       ELSE /\ actions' = [actions EXCEPT ![r] = acts]
            /\ rPc' = [rPc EXCEPT ![r] = "acting"]
            /\ UNCHANGED <<runOutcome, step_idx>>
    /\ UNCHANGED <<benchmark, args, maxActs, MAX_STEPS, process_lock, req,
                   done, trajectory, response>>

\* one pass of `for action in actions`: worker_env.step(action), the
\* trajectory record, `if done: break`, and step_idx += 1 after the last pass
Act(r, ok) ==
    /\ rPc[r] = "acting"
    /\ calls' = [calls EXCEPT ![r].step = @ + 1]
    /\ LET action == Head(actions[r])
           d == StepDone(action)
           last == BreakOnDone(d) \/ Tail(actions[r]) = <<>>
       IN  IF ~ok
           THEN /\ RunRaises(r, "ValueError")
                /\ UNCHANGED <<done, trajectory, actions, step_idx>>
           ELSE /\ done' = [done EXCEPT ![r] = d]
                /\ trajectory' = [trajectory EXCEPT ![r] =
                      Append(@, [step |-> step_idx[r] + 1, action |-> action,
                                 done |-> d])]
                /\ actions' = [actions EXCEPT ![r] =
                      IF last THEN <<>> ELSE Tail(@)]
                /\ step_idx' = [step_idx EXCEPT ![r] =
                      IF last THEN NextStepIdx(@) ELSE @]
                /\ rPc' = [rPc EXCEPT ![r] = IF last THEN "loop" ELSE "acting"]
                /\ UNCHANGED runOutcome
    /\ UNCHANGED <<benchmark, args, maxActs, MAX_STEPS, process_lock, req,
                   response>>

\* the while loop ends
LoopExit(r) ==
    /\ rPc[r] = "loop"
    /\ ~LoopContinues(done[r], step_idx[r])
    /\ rPc' = [rPc EXCEPT ![r] = "evaluate"]
    /\ UNCHANGED <<benchmark, args, maxActs, MAX_STEPS, process_lock, req,
                   step_idx, done, actions, trajectory, calls, runOutcome,
                   response>>

\* score = float(worker_env.evaluate()); return {"score", "trajectory"}
RunEvaluate(r, value, ok) ==
    /\ rPc[r] = "evaluate"
    /\ calls' = [calls EXCEPT ![r].evaluate = @ + 1]
    /\ IF ok
       THEN /\ rPc' = [rPc EXCEPT ![r] = "returned"]
            /\ runOutcome' = [runOutcome EXCEPT ![r] =
                  [kind |-> "returned", score |-> value, error |-> "",
                   ntraj |-> Len(trajectory[r])]]
       ELSE RunRaises(r, "TypeError")
    /\ UNCHANGED <<benchmark, args, maxActs, MAX_STEPS, process_lock, req,
                   step_idx, done, actions, trajectory, response>>

\* the handler resumes: process_lock is released and the response is built;
\* the locals of the ended _run_task_sync are gone
Respond(r) ==
    /\ rPc[r] = "returned"
    /\ process_lock' = LockAfterTask(process_lock, r, runOutcome[r].kind)
    /\ rPc' = [rPc EXCEPT ![r] = "responded"]
    /\ response' = [response EXCEPT ![r] =
          IF runOutcome[r].kind = "returned"
          THEN [status |-> "completed", score |-> runOutcome[r].score,
                error |-> "", has_trajectory |-> TRUE]
          ELSE IF HandlerCatches(runOutcome[r].error)
          THEN [status |-> "failed", score |-> 0, error |-> runOutcome[r].error,
                has_trajectory |-> FALSE]
          ELSE [status |-> "unhandled", score |-> 0,
                error |-> runOutcome[r].error, has_trajectory |-> FALSE]]
    /\ step_idx' = [step_idx EXCEPT ![r] = 0]
    /\ done' = [done EXCEPT ![r] = FALSE]
    /\ actions' = [actions EXCEPT ![r] = <<>>]
    /\ trajectory' = [trajectory EXCEPT ![r] = <<>>]
    /\ calls' = [calls EXCEPT ![r] = NoCalls]
    /\ runOutcome' = [runOutcome EXCEPT ![r] = NoOutcome]
    /\ req' = [req EXCEPT ![r] = NoReq]
    /\ UNCHANGED <<benchmark, args, maxActs, MAX_STEPS>>

(***************************************************************************)
(* DesktopEnv.evaluate (waa)                                               *)
(*   An evaluator is func / conj / result / expected of the task config    *)
(*   together with what its getters and metrics do when called: per entry  *)
(*   res "ok" | "fnf" (FileNotFoundError) | "err" (another exception),     *)
(*   exp "none" (no expected config) | "ok" | "err", and met the value the *)
(*   metric returns on the result state it is given (0..MetricScale for    *)
(*   0.0 .. 1.0), MetricRaises or MetricNonNumeric.                        *)
(*   A score is num / den, or the exception raised; raised_by is the first *)
(*   getter or metric that raised, caught or not.                          *)
(***************************************************************************)
MetricValues == 0..MetricScale
MetricOutcomes == MetricValues \cup {MetricRaises, MetricNonNumeric}

\* exp: "none" when no expected is configured for the entry; otherwise what
\* the expected getter does: returns a state ("ok"), returns None ("null")
\* or raises ("err")
ExpectedOutcomes == {"none", "ok", "null", "err"}

\* what a function that is never called would do is left out: a result getter
\* raising another exception ends evaluate, and so does an expected getter
\* that raises
Entries ==
    {e \in [res : {"ok", "fnf", "err"}, exp : ExpectedOutcomes,
            met : MetricOutcomes] :
        /\ e.res = "err" => (e.exp = "none" /\ e.met = 0)
        /\ e.exp = "err" => e.met = 0}

\* upto is the index of the last entry of which a getter or the metric was
\* invoked
Returns(n, d, by) ==
    [kind |-> "return", num |-> n, den |-> d, exc |-> "", raised_by |-> by,
     upto |-> 0, call |-> ""]
Raises(e, by) ==
    [kind |-> "raise", num |-> 0, den |-> 1, exc |-> e, raised_by |-> by,
     upto |-> 0, call |-> ""]
NoScore ==
    [kind |-> "none", num |-> 0, den |-> 1, exc |-> "", raised_by |-> "",
     upto |-> 0, call |-> ""]

\* the call ended inside the loop body of entry idx
EndedAt(idx, out) == [out EXCEPT !.upto = idx]

\* metric(result_state, expected_state, **options) if expected_state is not
\* None else metric(result_state, **options)
MetricArgsByConfig(exp) == IF exp # "none" THEN "both" ELSE "alone"
MetricArgs(exp) == IF exp = "ok" THEN "both" ELSE "alone"

\* the metric of the entry was called; call tells with which arguments the
\* metric of the last entry that got that far was called
Called(exp, out) == [out EXCEPT !.call = MetricArgs(exp)]

RECURSIVE SeqSum(_)
SeqSum(q) == IF q = <<>> THEN 0 ELSE Head(q) + SeqSum(Tail(q))

RECURSIVE SeqMax(_)
SeqMax(q) ==
    IF Len(q) = 1 THEN Head(q)
    ELSE IF Head(q) >= SeqMax(Tail(q)) THEN Head(q) ELSE SeqMax(Tail(q))

\* if self.metric_conj == 'and' and float(metric) == 0.0: return 0
AndShortCircuitNever(conj, metric) == FALSE
AndShortCircuit(conj, metric) == conj = "and" /\ metric = 0

\* elif self.metric_conj == 'or' and float(metric) == 1.0: return 1
OrShortCircuitNever(conj, metric) == FALSE
OrShortCircuit(conj, metric) == conj = "or" /\ metric = MetricScale

\* return sum(results) / len(results) if self.metric_conj == 'and'
\*        else max(results)
AggregateAlwaysMean(conj, results, by) ==
    IF results = <<>> THEN Raises("ZeroDivisionError", by)
    ELSE Returns(SeqSum(results), Len(results) * MetricScale, by)
Aggregate(conj, results, by) ==
    IF conj = "and"
    THEN IF results = <<>> THEN Raises("ZeroDivisionError", by)
         ELSE Returns(SeqSum(results), Len(results) * MetricScale, by)
    ELSE IF results = <<>> THEN Raises("ValueError", by)
         ELSE Returns(SeqMax(results), MetricScale, by)

\* `except FileNotFoundError` of the list branch returns only under 'and'
FnfReturnsZeroAlways(conj) == TRUE
FnfReturnsZeroNever(conj) == FALSE
FnfReturnsZero(conj) == conj = "and"

\* the for loop of the list branch from entry idx on; bound tells whether
\* result_state has been assigned by an earlier entry
RECURSIVE evaluate_list(_, _, _, _, _)
evaluate_list(ev, idx, results, bound, by) ==
    IF idx > Len(ev.entries)
    THEN IF ev.entries = <<>>
         THEN Aggregate(ev.conj, results, by)
         ELSE EndedAt(Len(ev.entries),
                      Called(ev.entries[Len(ev.entries)].exp,
                             Aggregate(ev.conj, results, by)))
    ELSE
    LET e == ev.entries[idx]
        by1 == IF by = "" /\ e.res # "ok" THEN "result_getter" ELSE by
        bound1 == bound \/ e.res = "ok"
        by2 == IF by1 = "" /\ e.exp = "err" THEN "expected_getter" ELSE by1
        by3 == IF by2 = "" /\ e.met = MetricRaises THEN "metric" ELSE by2
        here(out) == EndedAt(idx, out)
        called(out) == EndedAt(idx, Called(e.exp, out))
    IN  IF e.res = "err" THEN here(Raises("Exception", by1))
        ELSE IF e.res = "fnf" /\ FnfReturnsZero(ev.conj)
        THEN here(Returns(0, 1, by1))
        ELSE IF ~ev.has_expected THEN here(Raises("KeyError", by1))
        ELSE IF e.exp = "err" THEN here(Raises("Exception", by2))
        ELSE IF ~bound1 THEN here(Raises("UnboundLocalError", by2))
        ELSE IF e.met = MetricRaises THEN called(Raises("Exception", by3))
        ELSE IF e.met = MetricNonNumeric THEN called(Raises("TypeError", by3))
        ELSE IF AndShortCircuit(ev.conj, e.met) THEN called(Returns(0, 1, by3))
        ELSE IF OrShortCircuit(ev.conj, e.met) THEN called(Returns(1, 1, by3))
        ELSE evaluate_list(ev, idx + 1, Append(results, e.met), bound1, by3)

\* the scalar branch: except FileNotFoundError and except Exception around
\* the result getter both return 0
ScalarCatchesFnfOnly(res) == res = "fnf"
ScalarCatches(res) == res \in {"fnf", "err"}

\* the scalar branch and the final isinstance check
evaluate_scalar(ev) ==
    LET e == ev.entries[1]
    IN  IF e.res # "ok"
        THEN IF ScalarCatches(e.res) THEN Returns(0, 1, "result_getter")
             ELSE Raises("Exception", "result_getter")
        ELSE IF ev.has_expected /\ e.exp = "none"
        THEN Raises("TypeError", "expected_getter")
        ELSE IF ev.has_expected /\ e.exp = "err"
        THEN Raises("Exception", "expected_getter")
        ELSE IF e.met = MetricRaises
        THEN Called(e.exp, Raises("Exception", "metric"))
        ELSE IF e.met = MetricNonNumeric THEN Called(e.exp, Returns(0, 1, ""))
        ELSE Called(e.exp, Returns(e.met, MetricScale, ""))

\* DesktopEnv.evaluate
evaluate(ev) ==
    IF ev.kind = "list" THEN evaluate_list(ev, 1, <<>>, FALSE, "")
    ELSE EndedAt(1, evaluate_scalar(ev))

\* worker_env.evaluate() is called
Evaluate ==
    /\ ePc = "ready"
    /\ score' = evaluate(evaluator)
    /\ ePc' = "done"
    /\ UNCHANGED evaluator

(***************************************************************************)
(* SpecProvider                                                            *)
(***************************************************************************)
\* the evaluator part while another part is studied
IdleEval ==
    /\ evaluator = [kind |-> "scalar", conj |-> "and", has_expected |-> FALSE,
                    entries |-> <<>>]
    /\ ePc = "idle"
    /\ score = NoScore

\* the server part while the providers are studied
IdleServer ==
    /\ benchmark = "osworld"
    /\ args = ArgsUndefined
    /\ maxActs = 1
    /\ MAX_STEPS = DefaultMaxSteps
    /\ process_lock = NoRequest
    /\ rPc = [r \in Requests |-> "absent"]
    /\ req = [r \in Requests |-> NoReq]
    /\ step_idx = [r \in Requests |-> 0]
    /\ done = [r \in Requests |-> FALSE]
    /\ actions = [r \in Requests |-> <<>>]
    /\ trajectory = [r \in Requests |-> <<>>]
    /\ calls = [r \in Requests |-> NoCalls]
    /\ runOutcome = [r \in Requests |-> NoOutcome]
    /\ response = [r \in Requests |-> NoResponse]

\* the fields after __init__
InitPorts ==
    [server_port |-> NonePort, rdp_port |-> NonePort,
     chromium_port |-> NonePort, brower_port |-> Unset,
     ssh_port |-> NonePort, vnc_port |-> NonePort]

\* sockets of other programs inside the scaled port space
SysPortSets == {{}, {VncStart}}

InitProvider ==
    /\ providerKind \in [Workers -> ProviderKinds]
    /\ usedSys \in SysPortSets
    /\ host = {}
    /\ lock = [k \in ProviderKinds |-> NoHolder]
    /\ pPc = [w \in Workers |-> "idle"]
    /\ attempt = [w \in Workers |-> 0]
    /\ container = [w \in Workers |-> NoContainer]
    /\ ports = [w \in Workers |-> InitPorts]
    /\ connected = [w \in Workers |-> FALSE]
    /\ result = [w \in Workers |-> "none"]
    /\ backup = [w \in Workers |-> "dir"]
    /\ storage = [w \in Workers |-> "empty"]
    /\ snap = [w \in Workers |-> NoSnap]
    /\ session = [w \in Workers |-> InitSession]
    /\ IdleServer
    /\ IdleEval
    /\ IdleScan
    /\ IdleCalls

NextProvider ==
    /\ UNCHANGED <<svars, evars, qvars, cvars>>
    /\ \E w \in Workers :
        \/ \E o \in StopOutcomes : WaaRevertStop(w, o)
        \/ \E cp \in BOOLEAN : WaaRestore(w, cp, TRUE)
        \/ WaaAcquireLock(w)
        \/ WaaLockTimeout(w)
        \/ WaaAllocPorts(w)
        \/ WaaLaunch(w)
        \/ WaaLaunchFail(w)
        \/ WaaReady(w)
        \/ WaaWaitTimeout(w)
        \/ \E o \in StopOutcomes : WaaCleanup(w, o)
        \/ \E o \in StopOutcomes : WaaClose(w, o)
        \/ \E o \in StopOutcomes : MacResetEnv(w, o)
        \/ MacAcquireLock(w)
        \/ MacLockTimeout(w)
        \/ MacAllocPorts(w)
        \/ MacLaunch(w)
        \/ \E o \in StopOutcomes : MacLaunchFail(w, o)
        \/ MacSshReady(w)
        \/ \E o \in StopOutcomes : MacSshTimeout(w, o)
        \/ \E o \in StopOutcomes : MacClose(w, o)

SpecProvider == InitProvider /\ [][NextProvider]_vars

(***************************************************************************)
(* Properties of the providers                                             *)
(***************************************************************************)
\* the host ports a worker's start has leased: the ports it chose under its
\* lock while the launch is pending, the ports of its container afterwards
LeasedPorts(w) ==
    IF pPc[w] = "launch" THEN FieldPorts(ports[w])
    ELSE UNION {c.ports : c \in Held(w)}

\* C1: the port sets leased by the overlapping starts of two workers never
\* intersect, and no host port is mapped by two containers at the same time
C1_LeasesDisjoint ==
    /\ \A w1, w2 \in Workers :
          w1 # w2 => LeasedPorts(w1) \cap LeasedPorts(w2) = {}
    /\ \A c1, c2 \in host : c1 # c2 => c1.ports \cap c2.ports = {}

\* the part of C1 that the lock files do give: two workers of the same
\* provider class never lease a common port, and docker maps no port twice
SameClassLeasesDisjoint ==
    /\ \A w1, w2 \in Workers :
          (w1 # w2 /\ providerKind[w1] = providerKind[w2])
             => LeasedPorts(w1) \cap LeasedPorts(w2) = {}
    /\ \A c1, c2 \in host : c1 # c2 => c1.ports \cap c2.ports = {}

\* two workers of one class, one holding a container and the other inside
\* its lock with ports chosen
SameClassOverlap ==
    \E w1, w2 \in Workers :
        /\ w1 # w2 /\ providerKind[w1] = providerKind[w2]
        /\ pPc[w1] = "launch" /\ Held(w2) # {}

\* C10: stop_emulator and _close_env never raise, and when they return the
\* provider holds no container handle, whatever stop and remove did
C10_StopNeverRaises ==
    \A w \in Workers :
        /\ result[w] # "stop_raised"
        /\ (pPc[w] \in {"restore", "acquire"} \/ result[w] = "stopped")
              => container[w] = NoContainer

\* a stop whose container.stop() or remove() raised has returned: the
\* container is still on the host but the provider no longer holds it
C10_StopErrorSeen ==
    \E w \in Workers :
        /\ result[w] = "stopped"
        /\ container[w] = NoContainer
        /\ \E c \in host : c.owner = w /\ ~c.held

\* C11: once stop_emulator has returned, the container the provider held is
\* gone from the host and maps no port: every container of a
\* WindowsDockerProvider that still runs is one its provider holds
C11_StoppedContainerGone ==
    \A c \in host : providerKind[c.owner] = "waa" => c.held

\* C12: while revert_to_snapshot deletes and copies the working storage (the
\* step after its stop_emulator call, also when that stop met an error),
\* no container of this provider is running
C12_NoContainerDuringRestore ==
    \A w \in Workers :
        (providerKind[w] = "waa" /\ pPc[w] = "restore")
            => ~\E c \in host : c.owner = w

\* C16: a timeout of the port lock inside start_emulator ends that start
\* call with an error at once: the step in which a waiting worker gives up
\* the wait leaves the call, it does not begin another attempt
C16_LockTimeoutFatal ==
    [][\A w \in Workers :
          (providerKind[w] = "waa" /\ pPc[w] = "acquire"
              /\ attempt'[w] # attempt[w])
            => (pPc'[w] = "idle" /\ result'[w] = "start_raised")]_vars

\* the positions inside start_emulator
StartPcs == {"acquire", "alloc", "launch", "wait", "cleanup"}

\* C17: start_emulator runs at most TryTimes attempts; it returns normally
\* only from a readiness probe that succeeded while it holds a running
\* container, and it ends by raising when its last attempt has failed
C17_BoundedAttempts ==
    [][\A w \in Workers :
          providerKind[w] = "waa" =>
            /\ attempt'[w] < TryTimes
            /\ (pPc[w] \in StartPcs /\ pPc'[w] = "idle")
                 => \/ /\ result'[w] = "started"
                       /\ pPc[w] = "wait"
                       /\ container'[w] = HasContainer
                       /\ \E c \in host' : c.owner = w /\ c.held
                    \/ /\ result'[w] = "start_raised"
                       /\ attempt[w] = TryTimes - 1
                       /\ pPc[w] \in {"acquire", "cleanup"}]_vars

\* the last attempt of a start has failed
C17_LastAttemptFailed ==
    \E w \in Workers :
        /\ providerKind[w] = "waa" /\ pPc[w] = "cleanup"
        /\ attempt[w] = TryTimes - 1

(***************************************************************************)
(* SpecRevert: one WindowsDockerProvider and the file trees at its two     *)
(* paths.  The paths are keyed by the worker (storage_{pid} and            *)
(* storage_{pid}_backup), so the trees of one worker are touched by no     *)
(* other; the first worker is followed through revert_to_snapshot and      *)
(* close, with every kind of backup and every outcome of rmtree and cp.    *)
(***************************************************************************)
RevertWorkers == {w \in Workers : \A v \in Workers : w <= v}

\* the tree at path_to_vm before the first revert: not there, the empty
\* directory initialize_worker_files makes, or left behind by an earlier run
InitTrees == {"absent", "empty", "dirty"}

InitRevert ==
    /\ providerKind = [w \in Workers |-> "waa"]
    /\ usedSys \in SysPortSets
    /\ host = {}
    /\ lock = [k \in ProviderKinds |-> NoHolder]
    /\ pPc = [w \in Workers |-> "idle"]
    /\ attempt = [w \in Workers |-> 0]
    /\ container = [w \in Workers |-> NoContainer]
    /\ ports = [w \in Workers |-> InitPorts]
    /\ connected = [w \in Workers |-> FALSE]
    /\ result = [w \in Workers |-> "none"]
    /\ \E bk \in BackupKinds : backup = [w \in Workers |-> bk]
    /\ \E t \in InitTrees :
          storage = [w \in Workers |->
                        IF w \in RevertWorkers THEN t ELSE "empty"]
    /\ snap = [w \in Workers |-> NoSnap]
    /\ session = [w \in Workers |-> InitSession]
    /\ IdleServer
    /\ IdleEval
    /\ IdleScan
    /\ IdleCalls

NextRevert ==
    /\ UNCHANGED <<svars, evars, qvars, cvars>>
    /\ \E w \in RevertWorkers :
        \/ \E o \in StopOutcomes : WaaRevertStop(w, o)
        \/ \E cp, rm \in BOOLEAN : WaaRestore(w, cp, rm)
        \/ WaaAcquireLock(w)
        \/ WaaAllocPorts(w)
        \/ WaaLaunch(w)
        \/ WaaLaunchFail(w)
        \/ WaaReady(w)
        \/ WaaWaitTimeout(w)
        \/ \E o \in StopOutcomes : WaaCleanup(w, o)
        \/ \E o \in StopOutcomes : WaaClose(w, o)

SpecRevert == InitRevert /\ [][NextRevert]_vars

TreeFromBackup(bk) ==
    CASE bk = "dir" -> "copy"
      [] bk = "file" -> "absent"
      [] bk = "missing" -> "empty"

C18_SessionPortsCurrent ==
    \A w \in Workers :
        (providerKind[w] = "waa" /\ pPc[w] = "idle" /\ result[w] = "started")
          => /\ \E c \in host :
                   /\ c.owner = w /\ c.held
                   /\ {session[w].server_port,
                       session[w].chromium_port} \subseteq c.ports
             /\ session[w].server_port = ports[w].server_port
             /\ session[w].chromium_port = ports[w].chromium_port
             /\ session[w].controller.server_port = session[w].server_port
             /\ session[w].setup_controller.server_port
                    = session[w].server_port
             /\ session[w].setup_controller.chromium_port
                    = session[w].chromium_port

\* a reset has succeeded on ports other than the ones of __init__
C18_PortsMoved ==
    \E w \in Workers :
        /\ providerKind[w] = "waa" /\ pPc[w] = "idle"
        /\ result[w] = "started"
        /\ session[w].controller.server_port # ServerStart
        /\ session[w].setup_controller.chromium_port # ChromiumStart

(***************************************************************************)
(* SpecPort: _get_available_port as a function of its arguments, of the    *)
(* sockets psutil reports and of the ports the running containers map.     *)
(***************************************************************************)
\* sets of at most n ports
PortSets(n) == {S \in SUBSET PortSpace : Cardinality(S) <= n}

\* a container some provider has running, mapping host port p
Mapping(p) ==
    [owner |-> CHOOSE w \in Workers : TRUE, ports |-> {p}, held |-> FALSE]

InitPort ==
    /\ providerKind = [w \in Workers |-> "waa"]
    /\ usedSys \in PortSets(MaxListening)
    /\ host \in {{}} \cup {{Mapping(p)} : p \in PortSpace}
    /\ lock = [k \in ProviderKinds |-> NoHolder]
    /\ pPc = [w \in Workers |-> "idle"]
    /\ attempt = [w \in Workers |-> 0]
    /\ container = [w \in Workers |-> NoContainer]
    /\ ports = [w \in Workers |-> InitPorts]
    /\ connected = [w \in Workers |-> FALSE]
    /\ result = [w \in Workers |-> "none"]
    /\ backup = [w \in Workers |-> "dir"]
    /\ storage = [w \in Workers |-> "empty"]
    /\ snap = [w \in Workers |-> NoSnap]
    /\ session = [w \in Workers |-> InitSession]
    /\ scanIn \in [start_port : 0..PortLimit,
                    exclude_ports : PortSets(MaxExclude)]
    /\ scanOut = NoScanOut
    /\ IdleServer
    /\ IdleEval
    /\ IdleCalls

NextPort ==
    /\ GetAvailablePort
    /\ UNCHANGED <<pvars, svars, evars, cvars>>

SpecPort == InitPort /\ [][NextPort]_vars

\* the ports from start_port up to the end of the scan that are neither
\* used nor excluded
FreeFrom(start_port, exclude_ports) ==
    {p \in PortSpace :
        /\ start_port <= p
        /\ p \notin usedSys \cup DockerPorts \cup exclude_ports}

IdleProvider ==
    /\ providerKind = [w \in Workers |-> "waa"]
    /\ usedSys = {}
    /\ host = {}
    /\ lock = [k \in ProviderKinds |-> NoHolder]
    /\ pPc = [w \in Workers |-> "idle"]
    /\ attempt = [w \in Workers |-> 0]
    /\ container = [w \in Workers |-> NoContainer]
    /\ ports = [w \in Workers |-> InitPorts]
    /\ connected = [w \in Workers |-> FALSE]
    /\ result = [w \in Workers |-> "none"]
    /\ backup = [w \in Workers |-> "dir"]
    /\ storage = [w \in Workers |-> "empty"]
    /\ snap = [w \in Workers |-> NoSnap]
    /\ session = [w \in Workers |-> InitSession]

\* the request bodies
Bodies ==
    {[max_steps |-> n, model_name |-> m, well_formed |-> wf] :
        n \in 0..MaxBudget, m \in ModelNames,
        wf \in BOOLEAN}

\* either one request served by an agent that returns up to MaxActs actions
\* a prediction, or NumRequests requests served by single-action agents
InitServer ==
    /\ IdleProvider
    /\ IdleEval
    /\ IdleScan
    /\ IdleCalls
    /\ benchmark \in {"osworld", "windows_agent_arena"}
    /\ args \in ArgsChoices
    /\ \/ /\ maxActs = MaxActs
          /\ rPc = [r \in Requests |-> IF r = 1 THEN "new" ELSE "absent"]
       \/ /\ maxActs = 1
          /\ rPc = [r \in Requests |-> "new"]
    /\ MAX_STEPS = DefaultMaxSteps
    /\ process_lock = NoRequest
    /\ req = [r \in Requests |-> NoReq]
    /\ step_idx = [r \in Requests |-> 0]
    /\ done = [r \in Requests |-> FALSE]
    /\ actions = [r \in Requests |-> <<>>]
    /\ trajectory = [r \in Requests |-> <<>>]
    /\ calls = [r \in Requests |-> NoCalls]
    /\ runOutcome = [r \in Requests |-> NoOutcome]
    /\ response = [r \in Requests |-> NoResponse]

NextServer ==
    /\ UNCHANGED <<pvars, evars, qvars, cvars>>
    /\ \E r \in Requests :
        \/ \E body \in Bodies : Arrive(r, body)
        \/ AcquireProcessLock(r)
        \/ RunStart(r)
        \/ \E ok \in BOOLEAN : RunReset(r, ok)
        \/ \E acts \in Predictions(maxActs), ok \in BOOLEAN :
              Predict(r, acts, ok)
        \/ \E ok \in BOOLEAN : Act(r, ok)
        \/ LoopExit(r)
        \/ \E value \in {0, 1}, ok \in BOOLEAN :
              RunEvaluate(r, value, ok)
        \/ Respond(r)

SpecServer == InitServer /\ [][NextServer]_vars

(***************************************************************************)
(* Properties of the task service                                          *)
(***************************************************************************)
\* positions inside _run_task_sync
RunningPcs == {"start", "reset", "loop", "acting", "evaluate"}

\* C2: at most one _run_task_sync is in progress in a worker process, and
\* the request that runs is the holder of process_lock
C2_OneRunAtATime ==
    /\ \A r1, r2 \in Requests :
          (rPc[r1] \in RunningPcs /\ rPc[r2] \in RunningPcs) => r1 = r2
    /\ \A r \in Requests :
          rPc[r] \in RunningPcs \cup {"returned"} => process_lock = r

\* a second request waits on process_lock while the first one is stepping
C2_SecondWaits ==
    \E r1, r2 \in Requests :
        /\ rPc[r1] = "acting" /\ rPc[r2] = "waitlock"
        /\ process_lock = r1

SingleNonTerminalRun(r) ==
    /\ calls[r].predict = Len(trajectory[r])
    /\ \A i \in 1..Len(trajectory[r]) :
          /\ trajectory[r][i].step = i
          /\ trajectory[r][i].action \notin TerminalActions

\* C4: when the agent always emits one non-terminal action, the loop is left
\* after exactly MAX_STEPS steps with done = false and MAX_STEPS records, and
\* a run that returns has called evaluate exactly once
C4_BudgetExhausted ==
    \A r \in Requests :
        SingleNonTerminalRun(r) =>
            /\ rPc[r] = "evaluate" =>
                  /\ ~done[r]
                  /\ step_idx[r] = MAX_STEPS
                  /\ calls[r].step = MAX_STEPS
                  /\ Len(trajectory[r]) = MAX_STEPS
                  /\ calls[r].evaluate = 0
            /\ (rPc[r] = "returned" /\ runOutcome[r].kind = "returned") =>
                  /\ runOutcome[r].ntraj = MAX_STEPS
                  /\ calls[r].step = MAX_STEPS
                  /\ calls[r].evaluate = 1

\* such a run with a budget above one has returned its score
C4_FullRunReturned ==
    \E r \in Requests :
        /\ SingleNonTerminalRun(r)
        /\ rPc[r] = "returned" /\ runOutcome[r].kind = "returned"
        /\ MAX_STEPS > 1 /\ Len(trajectory[r]) = MAX_STEPS

\* C5: a record with done = true is the last record of the trajectory, no
\* action is pending after it, and a FAIL as first action leaves one record
C5_DoneEndsLoop ==
    \A r \in Requests :
        /\ \A i \in 1..Len(trajectory[r]) :
              trajectory[r][i].done => i = Len(trajectory[r])
        /\ (trajectory[r] # <<>> /\ trajectory[r][Len(trajectory[r])].done) =>
              /\ done[r]
              /\ actions[r] = <<>>
              /\ rPc[r] \in {"loop", "evaluate", "returned"}
              /\ calls[r].step = Len(trajectory[r])
        /\ (trajectory[r] # <<>> /\ trajectory[r][1].action = "FAIL") =>
              Len(trajectory[r]) = 1

\* a prediction of several actions whose first action is FAIL has been cut
\* short and the loop has been left
C5_FailFirstSeen ==
    \E r \in Requests :
        /\ maxActs > 1
        /\ rPc[r] = "evaluate"
        /\ calls[r].predict = 1
        /\ Len(trajectory[r]) = 1 /\ trajectory[r][1].action = "FAIL"

\* C9: a request that has ended has a structured response: completed with
\* score and trajectory, or failed with score 0 and the error
C9_StructuredResponse ==
    \A r \in Requests :
        rPc[r] = "responded" =>
            \/ /\ response[r].status = "completed"
               /\ response[r].has_trajectory
               /\ response[r].error = ""
            \/ /\ response[r].status = "failed"
               /\ response[r].score = 0
               /\ response[r].error \in ExceptionClasses

\* a step that raised has been answered with status failed
C9_StepErrorAnswered ==
    \E r \in Requests :
        /\ rPc[r] = "responded"
        /\ response[r].status = "failed" /\ response[r].error = "ValueError"

\* C20: a request that names no max_steps runs with the default step
\* budget of the process, whatever earlier requests asked for
C20_DefaultBudgetWhenUnset ==
    \A r \in Requests :
        (rPc[r] \in {"reset", "loop", "acting", "evaluate"}
            /\ req[r].max_steps = 0)
          => MAX_STEPS = DefaultMaxSteps

\* C21: the step numbers of the records of one run are strictly increasing
\* in the order the records were appended (the trajectory list and the lines
\* of traj.jsonl are written together, record by record)
C21_StepNumbersIncrease ==
    \A r \in Requests :
        \A i, j \in 1..Len(trajectory[r]) :
            i < j => trajectory[r][i].step < trajectory[r][j].step

(***************************************************************************)
(* SpecHealth: the task service with one GET /health request              *)
(***************************************************************************)
\* result_data = await run_in_threadpool(_run_task_sync, ...): the run is
\* handed to a worker thread and the coroutine is suspended
run_in_event_loop == FALSE
run_in_threadpool == TRUE

\* the event loop is inside a call that does not yield
EventLoopBusy ==
    ~run_in_threadpool /\ \E r \in Requests : rPc[r] \in RunningPcs

\* async def health(): return {"status": "success"}; it takes no lock and
\* awaits nothing, so it runs as soon as the event loop is free
Health ==
    /\ health.state = "none"
    /\ ~EventLoopBusy
    /\ health' = [state |-> "answered",
                  busy |-> \E r \in Requests : rPc[r] \in RunningPcs]
    /\ UNCHANGED <<pvars, svars, evars, qvars, tvars, rvars, mvars>>

NextHealth ==
    \/ NextServer
    \/ Health

SpecHealth == InitServer /\ [][NextHealth]_vars

SpecialActions == {"WAIT", "FAIL", "DONE"}
StepActions == SpecialActions \cup {"command", "dict", "dict_DONE"}
IsStr(action) == action \in SpecialActions \cup {"command"}

\* values of self.action_space; "other" is any string the code does not name
ActionSpaces == {"computer_13", "pyautogui", "code_block", "other"}

StepReturns(d, snt) ==
    [kind |-> "returned", done |-> d, sent |-> snt, obs |-> NoObs]
StepRaises(snt) ==
    [kind |-> "raised", done |-> "False", sent |-> snt, obs |-> NoObs]

\* self._get_obs() of waa returns None for the first `empties` captures of
\* the step, a dict afterwards
CaptureEmpty(empties, k) == k <= empties

\* the while loop of DesktopEnv.step: it is entered on try_time > 0, sleeps
\* and captures again, and leaves on a capture that is not None
RECURSIVE ObsLoop(_, _, _)
ObsLoop(empties, try_time, o) ==
    IF try_time > 0
    THEN LET o1 == [captures |-> o.captures + 1, delays |-> o.delays + 1,
                    empty |-> CaptureEmpty(empties, o.captures + 1)]
         IN  IF ~o1.empty THEN o1
             ELSE ObsLoop(empties, try_time - 1, o1)
    ELSE o

\* observation = self._get_obs(), then the loop
WaaObserve(empties) ==
    ObsLoop(empties, ObsTryTime,
            [captures |-> 1, delays |-> 0, empty |-> CaptureEmpty(empties, 1)])

\* MacOSEnv.step: one self._get_obs(), which always returns a dict
MacObserve == [captures |-> 1, delays |-> 0, empty |-> FALSE]

\* the observation is taken when the action part has not raised and, for
\* MacOSEnv, a task is loaded
WithObs(out, o) ==
    IF out.kind = "returned" /\ out.done # "None"
    THEN [out EXCEPT !.obs = o]
    ELSE out

\* DesktopEnv.step of waa: `action in ['WAIT', 'FAIL', 'DONE']` holds for the
\* three strings only; the else branch dispatches on the action space
WaaStep(action_space, action) ==
    IF action \in SpecialActions
    THEN StepReturns(IF action = "WAIT" THEN "False" ELSE "True", FALSE)
    ELSE CASE action_space = "computer_13" -> StepReturns("False", TRUE)
           [] action_space = "pyautogui" ->
                StepReturns("False", IsStr(action))
           [] action_space = "code_block" -> StepReturns("False", TRUE)
           [] OTHER -> StepRaises(FALSE)

\* MacOSEnv.step: without a task it returns four None; done is set by the
\* strings FAIL and DONE; execute_action is `pass`; under pyautogui every
\* action but the three strings goes to execute_python_command, which
\* raises on action.strip() when the action is a dict
MacStep(action_space, action, task_loaded) ==
    IF ~task_loaded THEN StepReturns("None", FALSE)
    ELSE LET d == IF action \in {"FAIL", "DONE"} THEN "True" ELSE "False"
         IN  CASE action_space = "computer_13" -> StepReturns(d, FALSE)
               [] action_space = "pyautogui" ->
                    IF action \in SpecialActions THEN StepReturns(d, FALSE)
                    ELSE IF IsStr(action) THEN StepReturns(d, TRUE)
                    ELSE StepRaises(FALSE)
               [] OTHER -> StepReturns(d, FALSE)

\* one call of step
Step ==
    /\ stepOut.kind = "none"
    /\ stepOut' = IF stepIn.env = "waa"
                  THEN WithObs(WaaStep(stepIn.action_space, stepIn.action),
                               WaaObserve(stepIn.empties))
                  ELSE WithObs(MacStep(stepIn.action_space, stepIn.action,
                                       stepIn.task_loaded),
                               MacObserve)
    /\ UNCHANGED stepIn

InitStep ==
    /\ IdleProvider
    /\ IdleServer
    /\ IdleEval
    /\ IdleScan
    /\ stepIn \in [env : ProviderKinds, action_space : ActionSpaces,
                    action : StepActions, task_loaded : BOOLEAN,
                    empties : 0..(ObsTryTime + 1)]
    /\ stepIn.env = "waa" => stepIn.task_loaded
    /\ stepIn.env # "waa" => stepIn.empties = 0
    /\ stepOut = NoStepOut
    /\ IdleHealth
    /\ IdleChannel
    /\ IdleMacEval

NextStep ==
    /\ Step
    /\ UNCHANGED <<pvars, svars, evars, qvars, health, rvars, mvars>>

SpecStep == InitStep /\ [][NextStep]_vars

\* C22: with a task loaded, step(FAIL) and step(DONE) return done = True and
\* step(WAIT) returns done = False, each without a command sent to the
\* instance; every other action is sent to the instance and returns
\* done = False
C22_SpecialsShortCircuit ==
    (stepOut.kind # "none" /\ stepIn.task_loaded) =>
        /\ stepOut.kind = "returned"
        /\ stepOut.done = IF stepIn.action \in {"FAIL", "DONE"}
                          THEN "True" ELSE "False"
        /\ stepOut.sent = (stepIn.action \notin SpecialActions)

\* C31: a step of waa captures again only while the capture is empty, at
\* most ObsTryTime more times: a first capture that is not empty is
\* followed by no other capture and no retry delay
C31_RecaptureOnlyWhileEmpty ==
    (stepIn.env = "waa" /\ stepOut.kind = "returned") =>
        /\ stepOut.obs.captures <= 1 + ObsTryTime
        /\ stepOut.obs.delays = stepOut.obs.captures - 1
        /\ stepOut.obs.captures =
              IF stepIn.empties > ObsTryTime THEN 1 + ObsTryTime
              ELSE 1 + stepIn.empties

(***************************************************************************)
(* SpecEval                                                                *)
(***************************************************************************)
\* the entries of an evaluator without the key "expected"
EntriesNoExpected == {e \in Entries : e.exp = "none"}

\* func is a list of 0..MaxEntries metrics with conj and / or, or a single
\* metric
Evaluators ==
    {[kind |-> "list", conj |-> c, has_expected |-> TRUE, entries |-> es] :
        c \in {"and", "or"},
        es \in UNION {[1..n -> Entries] : n \in 0..MaxEntries}}
    \cup
    {[kind |-> "list", conj |-> c, has_expected |-> FALSE, entries |-> es] :
        c \in {"and", "or"},
        es \in UNION {[1..n -> EntriesNoExpected] : n \in 0..MaxEntries}}
    \cup
    {[kind |-> "scalar", conj |-> "and", has_expected |-> TRUE,
      entries |-> <<e>>] : e \in Entries}
    \cup
    {[kind |-> "scalar", conj |-> "and", has_expected |-> FALSE,
      entries |-> <<e>>] : e \in EntriesNoExpected}

InitEval ==
    /\ IdleProvider
    /\ IdleServer
    /\ IdleScan
    /\ IdleCalls
    /\ evaluator \in Evaluators
    /\ ePc = "ready"
    /\ score = NoScore

NextEval ==
    /\ UNCHANGED <<pvars, svars, qvars, cvars>>
    /\ Evaluate

SpecEval == InitEval /\ [][NextEval]_vars

(***************************************************************************)
(* Properties of evaluate                                                  *)
(***************************************************************************)
\* every getter and every metric of the evaluator returns normally, the
\* metrics return numbers, and the expected list is there
AllReturnNormally(ev) ==
    /\ ev.entries # <<>>
    /\ ev.has_expected
    /\ \A i \in 1..Len(ev.entries) :
          /\ ev.entries[i].res = "ok"
          /\ ev.entries[i].exp # "err"
          /\ ev.entries[i].met \in MetricValues

MetricList(ev) == [i \in 1..Len(ev.entries) |-> ev.entries[i].met]

\* C6: a list evaluator with conj = and whose getters and metrics return
\* normally scores 0 if a metric value is 0.0, else the mean of the values;
\* the values 0 and 1 score 0
C6_AndMean ==
    (ePc = "done" /\ evaluator.kind = "list" /\ evaluator.conj = "and"
       /\ AllReturnNormally(evaluator)) =>
        /\ score.kind = "return"
        /\ IF \E i \in 1..Len(evaluator.entries) : evaluator.entries[i].met = 0
           THEN score.num = 0
           ELSE score.num * Len(evaluator.entries) * MetricScale
                   = SeqSum(MetricList(evaluator)) * score.den
        /\ MetricList(evaluator) = <<0, MetricScale>> => score.num = 0

\* func = [m1, m2] with m1 = 0 and m2 = 1 under conj = and has been scored
C6_ZeroAndOneScored ==
    /\ ePc = "done" /\ evaluator.kind = "list" /\ evaluator.conj = "and"
    /\ AllReturnNormally(evaluator)
    /\ MetricList(evaluator) = <<0, MetricScale>>
    /\ score.kind = "return" /\ score.num = 0

\* C7: a list evaluator with conj = or whose getters and metrics return
\* normally scores 1 if a metric value is 1.0, else the maximum of the values
C7_OrMax ==
    (ePc = "done" /\ evaluator.kind = "list" /\ evaluator.conj = "or"
       /\ AllReturnNormally(evaluator)) =>
        /\ score.kind = "return"
        /\ IF \E i \in 1..Len(evaluator.entries) :
                 evaluator.entries[i].met = MetricScale
           THEN score.num = score.den
           ELSE /\ score.num * MetricScale
                      = SeqMax(MetricList(evaluator)) * score.den
                /\ \A i \in 1..Len(evaluator.entries) :
                      evaluator.entries[i].met * score.den
                         <= score.num * MetricScale

\* two different values below 1.0 under conj = or have been scored
C7_TwoValuesScored ==
    /\ ePc = "done" /\ evaluator.kind = "list" /\ evaluator.conj = "or"
    /\ AllReturnNormally(evaluator)
    /\ Len(evaluator.entries) = 2
    /\ evaluator.entries[1].met < evaluator.entries[2].met
    /\ evaluator.entries[2].met < MetricScale
    /\ score.kind = "return" /\ score.num > 0

\* C8: evaluate returns 0 and does not raise whenever a result getter, an
\* expected getter or a metric has raised
C8_ErrorsScoreZero ==
    (ePc = "done" /\ score.raised_by # "") =>
        (score.kind = "return" /\ score.num = 0)

\* entry i of the evaluator returns normally: its getters return, its
\* metric returns a number, and the expected list is there to be indexed
EntryReturnsNormally(ev, i) ==
    /\ ev.has_expected
    /\ ev.entries[i].res = "ok"
    /\ ev.entries[i].exp # "err"
    /\ ev.entries[i].met \in MetricValues

\* the entries whose result getter raises FileNotFoundError
FnfEntries(ev) == {i \in 1..Len(ev.entries) : ev.entries[i].res = "fnf"}

\* C23: a list evaluator with conj = and in which the result getter of an
\* entry raises FileNotFoundError scores 0 without raising, whatever values
\* the entries before it return
C23_AndFnfScoresZero ==
    (/\ ePc = "done" /\ evaluator.kind = "list" /\ evaluator.conj = "and"
     /\ \E k \in FnfEntries(evaluator) :
           \A j \in 1..(k - 1) : EntryReturnsNormally(evaluator, j))
      => (score.kind = "return" /\ score.num = 0)

\* the FileNotFoundError of a later entry ended an evaluation whose earlier
\* entry had scored 1.0
C23_FnfAfterFullScore ==
    /\ ePc = "done" /\ evaluator.kind = "list" /\ evaluator.conj = "and"
    /\ Len(evaluator.entries) > 1
    /\ EntryReturnsNormally(evaluator, 1)
    /\ evaluator.entries[1].met = MetricScale
    /\ evaluator.entries[Len(evaluator.entries)].res = "fnf"
    /\ score.kind = "return" /\ score.num = 0
    /\ score.raised_by = "result_getter"

\* the metric values of the entries whose result getter did not raise
\* FileNotFoundError, in order
RECURSIVE RemainingMetrics(_, _)
RemainingMetrics(ev, i) ==
    IF i > Len(ev.entries) THEN <<>>
    ELSE IF ev.entries[i].res = "fnf" THEN RemainingMetrics(ev, i + 1)
    ELSE <<ev.entries[i].met>> \o RemainingMetrics(ev, i + 1)

\* C24: a list evaluator with conj = or skips an entry whose result getter
\* raises FileNotFoundError: with the other entries returning normally (at
\* least one of them), the score is the largest of their metric values
C24_OrFnfSkipped ==
    (/\ ePc = "done" /\ evaluator.kind = "list" /\ evaluator.conj = "or"
     /\ FnfEntries(evaluator) # {}
     /\ FnfEntries(evaluator) # 1..Len(evaluator.entries)
     /\ \A i \in 1..Len(evaluator.entries) :
           i \notin FnfEntries(evaluator)
              => EntryReturnsNormally(evaluator, i))
      => /\ score.kind = "return"
         /\ score.num * MetricScale
               = SeqMax(RemainingMetrics(evaluator, 1)) * score.den

\* C25: a scalar evaluator whose result getter raises FileNotFoundError or
\* another exception scores 0 and raises nothing
C25_ScalarGetterErrorScoresZero ==
    (/\ ePc = "done" /\ evaluator.kind = "scalar"
     /\ evaluator.entries[1].res # "ok")
      => (score.kind = "return" /\ score.num = 0)

\* a scalar evaluation whose result getter raised an exception other than
\* FileNotFoundError has returned 0
C25_OtherExceptionScoredZero ==
    /\ ePc = "done" /\ evaluator.kind = "scalar"
    /\ evaluator.entries[1].res = "err"
    /\ score.kind = "return" /\ score.num = 0
    /\ score.raised_by = "result_getter"

\* C26: a list evaluator without the key "expected", whose result getters
\* and metrics return normally, is evaluated without raising: each metric is
\* called with the result state alone
C26_MissingExpectedAccepted ==
    (/\ ePc = "done" /\ evaluator.kind = "list"
     /\ ~evaluator.has_expected
     /\ evaluator.entries # <<>>
     /\ \A i \in 1..Len(evaluator.entries) :
           /\ evaluator.entries[i].res = "ok"
           /\ evaluator.entries[i].met \in MetricValues)
      => score.kind = "return"

(***************************************************************************)
(* SpecChannel: the SSH client and the SFTP client of one MacOSEnv, the    *)
(* remote operations that use them, and the temporary scripts that         *)
(* execute_python_command leaves in /tmp of the instance.                  *)
(***************************************************************************)
\* a client is None, connected, or an object whose transport is gone
ClientStates == {"none", "live", "dead"}

\* the connection drops: the transport of the SSH client and the channel of
\* the SFTP client opened on it end together
Dropped(c) ==
    [ssh  |-> IF c.ssh = "live" THEN "dead" ELSE c.ssh,
     sftp |-> IF c.sftp = "live" THEN "dead" ELSE c.sftp]

\* connect_ssh: a new client unless the transport is active; a failed
\* connect is logged and raised again, the unconnected client stays
connect_ssh(c, conn_ok) ==
    IF c.ssh = "live"
    THEN [chan |-> c, raised |-> FALSE]
    ELSE IF conn_ok
         THEN [chan |-> [c EXCEPT !.ssh = "live"], raised |-> FALSE]
         ELSE [chan |-> [c EXCEPT !.ssh = "dead"], raised |-> TRUE]

\* connect_sftp: connect_ssh, then open_sftp only when sftp_client is None
connect_sftp(c, conn_ok) ==
    LET r == connect_ssh(c, conn_ok)
    IN  IF r.raised
        THEN r
        ELSE IF r.chan.sftp = "none"
             THEN [chan |-> [r.chan EXCEPT !.sftp = "live"], raised |-> FALSE]
             ELSE r

\* run_command: connect_ssh only when `not self.ssh_client`, then
\* exec_command, which raises on a client without an active transport
run_command(c, conn_ok) ==
    LET r == IF c.ssh = "none"
             THEN connect_ssh(c, conn_ok)
             ELSE [chan |-> c, raised |-> FALSE]
    IN  IF r.raised
        THEN r
        ELSE [chan |-> r.chan, raised |-> r.chan.ssh # "live"]

\* the points of execute_python_command before which the connection may drop
DropPoints == {"never", "write", "exec", "rm"}

DropAt(c, drop_at, point) == IF drop_at = point THEN Dropped(c) ELSE c

\* execute_python_command: connect_sftp, open and write the script, run it,
\* remove it; any exception returns status "error" from the except clause.
\* `left` tells whether the script of this call is still on the instance.
PythonError(c, left) == [chan |-> c, status |-> "error", left |-> left]

execute_python_command(c, conn_ok, drop_at) ==
    LET s1 == connect_sftp(c, conn_ok)
    IN  IF s1.raised \/ s1.chan.sftp # "live"
        THEN \* connect raised, or open raised on the closed channel
             PythonError(s1.chan, FALSE)
        ELSE IF drop_at = "write"
        THEN \* the file was opened for writing, the write raised
             PythonError(Dropped(s1.chan), TRUE)
        ELSE
          LET r2 == run_command(DropAt(s1.chan, drop_at, "exec"), conn_ok)
          IN  IF r2.raised
              THEN PythonError(r2.chan, TRUE)
              ELSE
                LET r3 == run_command(DropAt(r2.chan, drop_at, "rm"), conn_ok)
                IN  IF r3.raised
                    THEN PythonError(r3.chan, TRUE)
                    ELSE [chan |-> r3.chan, status |-> "success",
                          left |-> FALSE]

\* get_screenshot: connect_ssh, run the capture, connect_sftp, read the file;
\* any exception returns b"" ("error" here)
get_screenshot(c, conn_ok) ==
    LET r0 == connect_ssh(c, conn_ok)
    IN  IF r0.raised
        THEN [chan |-> r0.chan, status |-> "error"]
        ELSE
          LET r1 == run_command(r0.chan, conn_ok)
          IN  IF r1.raised
              THEN [chan |-> r1.chan, status |-> "error"]
              ELSE
                LET r2 == connect_sftp(r1.chan, conn_ok)
                IN  IF r2.raised \/ r2.chan.sftp # "live"
                    THEN [chan |-> r2.chan, status |-> "error"]
                    ELSE [chan |-> r2.chan, status |-> "success"]

OpResult(op, kind, status, conn_ok, drop_at, left) ==
    [op |-> op, kind |-> kind, status |-> status,
     dropped |-> chan.ssh = "dead", conn_ok |-> conn_ok,
     drop_at |-> drop_at, live |-> kind = "returned" /\ status = "success",
     left |-> left]

\* the network or the instance ends the connection between two calls
Drop ==
    /\ chan.ssh = "live"
    /\ chan' = Dropped(chan)
    /\ UNCHANGED <<scripts, opOut>>

\* close_connection: both clients closed and set to None
CloseConnection ==
    /\ chan # NoChan
    /\ chan' = NoChan
    /\ UNCHANGED <<scripts, opOut>>

RunCommand ==
    \E conn_ok \in BOOLEAN :
        LET r == run_command(chan, conn_ok)
        IN  /\ chan' = r.chan
            /\ opOut' = OpResult("run_command",
                                 IF r.raised THEN "raised" ELSE "returned",
                                 IF r.raised THEN "" ELSE "success",
                                 conn_ok, "never", FALSE)
            /\ UNCHANGED scripts

\* execute_bash_command: the connect is outside the try, exec_command inside
ExecuteBash ==
    \E conn_ok \in BOOLEAN :
        LET r == run_command(chan, conn_ok)
            connectRaised == chan.ssh = "none" /\ ~conn_ok
        IN  /\ chan' = r.chan
            /\ opOut' = OpResult("execute_bash_command",
                                 IF connectRaised THEN "raised" ELSE "returned",
                                 IF connectRaised THEN ""
                                 ELSE IF r.raised THEN "error" ELSE "success",
                                 conn_ok, "never", FALSE)
            /\ UNCHANGED scripts

ExecutePython ==
    \E conn_ok \in BOOLEAN, drop_at \in DropPoints :
        LET r == execute_python_command(chan, conn_ok, drop_at)
        IN  /\ r.left => scripts < MaxScripts
            /\ chan' = r.chan
            /\ scripts' = IF r.left THEN scripts + 1 ELSE scripts
            /\ opOut' = OpResult("execute_python_command", "returned",
                                 r.status, conn_ok, drop_at, r.left)

GetScreenshot ==
    \E conn_ok \in BOOLEAN :
        LET r == get_screenshot(chan, conn_ok)
        IN  /\ chan' = r.chan
            /\ opOut' = OpResult("get_screenshot", "returned", r.status,
                                 conn_ok, "never", FALSE)
            /\ UNCHANGED scripts

InitChannel ==
    /\ IdleProvider
    /\ IdleServer
    /\ IdleEval
    /\ IdleScan
    /\ IdleStep
    /\ IdleHealth
    /\ IdleChannel
    /\ IdleMacEval

NextChannel ==
    /\ \/ Drop
       \/ CloseConnection
       \/ RunCommand
       \/ ExecuteBash
       \/ ExecutePython
       \/ GetScreenshot
    /\ UNCHANGED <<pvars, svars, evars, qvars, tvars, health, mvars>>

SpecChannel == InitChannel /\ [][NextChannel]_vars

\* C28: an operation issued after a drop, while the instance accepts
\* connections and nothing drops during the call, runs on a live SSH
\* connection and a live SFTP session, that is, it succeeds
C28_ReconnectsAfterDrop ==
    (/\ opOut.op # "none"
     /\ opOut.dropped
     /\ opOut.conn_ok
     /\ opOut.drop_at = "never")
      => opOut.live

\* C29: after execute_python_command returns, the script it uploaded is
\* gone from the instance, on success and on error alike
C29_ScriptRemoved ==
    opOut.op = "execute_python_command" /\ opOut.kind = "returned"
      => ~opOut.left

(***************************************************************************)
(* SpecMacEval: MacOSEnv.evaluate_task as a function of the evaluator and  *)
(* of what its getters and metrics do.                                     *)
(***************************************************************************)
\* one zipped entry (func, parameters, expected): the getter name is not in
\* evaluators.getter, the getter raises, the metric (its lookup or its call)
\* raises, or the metric returns True or False
MacEntryKinds ==
    {"missing_getter", "getter_raises", "metric_raises", "true", "false"}

MacReturns(v) == [kind |-> "return", value |-> v]
MacRaises == [kind |-> "raise", value |-> FALSE]

\* what one entry appends to results: the three except clauses append False
MacEntryValueUncaught(k) ==
    IF k \in {"true", "false"} THEN k ELSE "raise"

MacEntryValue(k) ==
    IF k = "true" THEN "true" ELSE "false"

\* the for loop from entry idx on, then all(results) or any(results)
RECURSIVE mac_evaluate_loop(_, _, _)
mac_evaluate_loop(ev, idx, results) ==
    IF idx > Len(ev.entries)
    THEN MacReturns(IF ev.conj = "and"
                    THEN \A i \in 1..Len(results) : results[i]
                    ELSE \E i \in 1..Len(results) : results[i])
    ELSE LET v == MacEntryValue(ev.entries[idx])
         IN  IF v = "raise"
             THEN MacRaises
             ELSE mac_evaluate_loop(ev, idx + 1, Append(results, v = "true"))

\* MacOSEnv.evaluate_task
evaluate_task(ev) ==
    IF ~ev.present THEN MacReturns(FALSE)
    ELSE IF ~ev.lengths_ok THEN MacRaises
    ELSE mac_evaluate_loop(ev, 1, <<>>)

\* evaluate_task() is called
MacEvaluate ==
    /\ mOut = NoMacOut
    /\ mOut' = evaluate_task(mEval)
    /\ UNCHANGED mEval

\* no evaluator, or func, parameters and expected of 0..MaxEntries entries
\* with conj and / or, the three lists of the same length or not
MacEvaluators ==
    {NoMacEval}
    \cup
    {[present |-> TRUE, lengths_ok |-> l, conj |-> c, entries |-> es] :
        l \in BOOLEAN, c \in {"and", "or"},
        es \in UNION {[1..n -> MacEntryKinds] : n \in 0..MaxEntries}}

InitMacEval ==
    /\ IdleProvider
    /\ IdleServer
    /\ IdleEval
    /\ IdleScan
    /\ IdleStep
    /\ IdleHealth
    /\ IdleChannel
    /\ mEval \in MacEvaluators
    /\ mOut = NoMacOut

NextMacEval ==
    /\ MacEvaluate
    /\ UNCHANGED <<pvars, svars, evars, qvars, tvars, health, rvars>>

SpecMacEval == InitMacEval /\ [][NextMacEval]_vars

\* C30: with an evaluator whose three lists have the same length,
\* evaluate_task returns whatever the getters and metrics do: an entry
\* whose getter is missing or raises, or whose metric raises, counts as
\* False, and the result is all(entries) under and, any(entries) otherwise
C30_EvaluateTaskNeverRaises ==
    (mOut # NoMacOut /\ mEval.present /\ mEval.lengths_ok)
      => /\ mOut.kind = "return"
         /\ mOut.value =
              IF mEval.conj = "and"
              THEN \A i \in 1..Len(mEval.entries) : mEval.entries[i] = "true"
              ELSE \E i \in 1..Len(mEval.entries) : mEval.entries[i] = "true"

\* an entry with a missing getter was followed by an entry that passed, and
\* the result under or is True
C30_PassedAfterMissingGetter ==
    /\ mOut = MacReturns(TRUE)
    /\ mEval.conj = "or"
    /\ Len(mEval.entries) = 2
    /\ mEval.entries[1] = "missing_getter"
    /\ mEval.entries[2] = "true"

(***************************************************************************)
(* Short circuit and argument passing of DesktopEnv.evaluate               *)
(***************************************************************************)
\* C32: in a list evaluator every entry before the last one that was
\* invoked has a metric value that does not end the loop: not 0 under and,
\* not the full score under or
C32_NothingInvokedAfterShortCircuit ==
    (score # NoScore /\ evaluator.kind = "list") =>
        \A i \in 1..Len(evaluator.entries) :
            i < score.upto =>
                /\ ~(evaluator.conj = "and" /\ evaluator.entries[i].met = 0)
                /\ ~(evaluator.conj = "or"
                     /\ evaluator.entries[i].met = MetricScale)

\* a first metric of 0 under and ended the call before the second entry
C32_StoppedBeforeSecondEntry ==
    /\ score.kind = "return"
    /\ evaluator.kind = "list" /\ evaluator.conj = "and"
    /\ Len(evaluator.entries) = 2
    /\ evaluator.entries[1].res = "ok" /\ evaluator.entries[1].met = 0
    /\ score.upto = 1

\* C33: when the metric of an entry is called, it gets the result state and
\* the expected state if expected is configured for the entry, whatever the
\* expected getter returned, and the result state alone otherwise
C33_ExpectedPassedWhenConfigured ==
    (score # NoScore /\ score.call # "") =>
        score.call =
            IF evaluator.has_expected
               /\ evaluator.entries[score.upto].exp # "none"
            THEN "both" ELSE "alone"

(***************************************************************************)
(* SpecLease: one start of the first worker, of either class, on a host    *)
(* where any set of ports is in use.                                       *)
(***************************************************************************)
InitLease ==
    /\ providerKind \in [Workers -> ProviderKinds]
    /\ \A w \in Workers \ RevertWorkers : providerKind[w] = "waa"
    /\ usedSys \in SUBSET PortSpace
    /\ host = {}
    /\ lock = [k \in ProviderKinds |-> NoHolder]
    /\ pPc = [w \in Workers |-> "idle"]
    /\ attempt = [w \in Workers |-> 0]
    /\ container = [w \in Workers |-> NoContainer]
    /\ ports = [w \in Workers |-> InitPorts]
    /\ connected = [w \in Workers |-> FALSE]
    /\ result = [w \in Workers |-> "none"]
    /\ backup = [w \in Workers |-> "dir"]
    /\ storage = [w \in Workers |-> "empty"]
    /\ snap = [w \in Workers |-> NoSnap]
    /\ session = [w \in Workers |-> InitSession]
    /\ IdleServer
    /\ IdleEval
    /\ IdleScan
    /\ IdleCalls

\* revert_to_snapshot and start_emulator, or _reset_env, up to the container
NextLease ==
    /\ UNCHANGED <<svars, evars, qvars, cvars>>
    /\ \E w \in RevertWorkers :
        \/ \E o \in StopOutcomes : WaaRevertStop(w, o)
        \/ WaaRestore(w, TRUE, TRUE)
        \/ WaaAcquireLock(w)
        \/ WaaAllocPorts(w)
        \/ WaaLaunch(w)
        \/ \E o \in StopOutcomes : MacResetEnv(w, o)
        \/ MacAcquireLock(w)
        \/ MacAllocPorts(w)
        \/ MacLaunch(w)

SpecLease == InitLease /\ [][NextLease]_vars

\* the host ports a worker has leased in the start it is in
StartPorts(w) ==
    IF providerKind[w] = "waa"
    THEN <<ports[w].server_port, ports[w].rdp_port, ports[w].chromium_port,
           ports[w].brower_port>>
    ELSE <<ports[w].ssh_port, ports[w].vnc_port>>

\* C34: the ports leased in one start are pairwise distinct host ports,
\* whatever ports are in use on the host
C34_LeasedPortsDistinct ==
    \A w \in Workers :
        (pPc[w] = "launch" \/ container[w] = HasContainer) =>
            LET q == StartPorts(w)
            IN  /\ \A i \in 1..Len(q) : q[i] \in PortSpace
                /\ \A i, j \in 1..Len(q) : i # j => q[i] # q[j]

\* a start whose scan for a later port had to pass a port leased before it
\* in the same start
C34_ScanPassedLeasedPort ==
    \E w \in Workers :
        /\ container[w] = HasContainer
        /\ \/ /\ providerKind[w] = "waa"
              /\ ports[w].rdp_port > ports[w].server_port
           \/ /\ providerKind[w] = "macos"
              /\ ports[w].vnc_port > ports[w].ssh_port

(***************************************************************************)
(* Connection info of a provider without a container                       *)
(***************************************************************************)
\* C35: a provider that holds no container and is not inside
\* revert_to_snapshot answers get_connection_info without raising, with
\* server_port, rdp_port and chromium_port all None
C35_NoContainerNoPorts ==
    \A w \in Workers :
        (/\ providerKind[w] = "waa"
         /\ container[w] = NoContainer
         /\ pPc[w] = "idle")
          => /\ ~get_connection_info_raises(w)
             /\ get_connection_info(w).server_port = NonePort
             /\ get_connection_info(w).rdp_port = NonePort
             /\ get_connection_info(w).chromium_port = NonePort

(***************************************************************************)
(* SpecLock: the workers of one class, which share one lock file, start    *)
(* and restart their instances; each worker that can take a step           *)
(* eventually takes one.                                                   *)
(***************************************************************************)
InitLock ==
    /\ providerKind \in {[w \in Workers |-> k] : k \in ProviderKinds}
    /\ usedSys = {}
    /\ host = {}
    /\ lock = [k \in ProviderKinds |-> NoHolder]
    /\ pPc = [w \in Workers |-> "idle"]
    /\ attempt = [w \in Workers |-> 0]
    /\ container = [w \in Workers |-> NoContainer]
    /\ ports = [w \in Workers |-> InitPorts]
    /\ connected = [w \in Workers |-> FALSE]
    /\ result = [w \in Workers |-> "none"]
    /\ backup = [w \in Workers |-> "dir"]
    /\ storage = [w \in Workers |-> "empty"]
    /\ snap = [w \in Workers |-> NoSnap]
    /\ session = [w \in Workers |-> InitSession]
    /\ IdleServer
    /\ IdleEval
    /\ IdleScan
    /\ IdleCalls

\* stop_emulator / _close_env meet no docker error here: what a failed stop
\* leaves behind is followed in SpecProvider, and it holds no lock
CleanStops == {"ok"}

\* the steps of revert_to_snapshot with start_emulator, and of _reset_env
StartStep(w) ==
    /\ UNCHANGED <<svars, evars, qvars, cvars>>
    /\ \/ \E o \in CleanStops : WaaRevertStop(w, o)
       \/ WaaRestore(w, TRUE, TRUE)
       \/ WaaAcquireLock(w)
       \/ WaaLockTimeout(w)
       \/ WaaAllocPorts(w)
       \/ WaaLaunch(w)
       \/ WaaLaunchFail(w)
       \/ WaaReady(w)
       \/ WaaWaitTimeout(w)
       \/ \E o \in CleanStops : WaaCleanup(w, o)
       \/ \E o \in CleanStops : MacResetEnv(w, o)
       \/ MacAcquireLock(w)
       \/ MacLockTimeout(w)
       \/ MacAllocPorts(w)
       \/ MacLaunch(w)
       \/ \E o \in CleanStops : MacLaunchFail(w, o)
       \/ MacSshReady(w)
       \/ \E o \in CleanStops : MacSshTimeout(w, o)

NextLock == \E w \in Workers : StartStep(w)

SpecLock ==
    /\ InitLock
    /\ [][NextLock]_vars
    /\ \A w \in Workers : WF_vars(StartStep(w))

\* the program points inside the with block of a start attempt
InsideLock(w) ==
    IF providerKind[w] = "waa"
    THEN pPc[w] \in {"alloc", "launch", "wait"}
    ELSE pPc[w] \in {"alloc", "launch"}

\* the lock is held only by a worker inside the with block
LockHeldInsideOnly ==
    \A k \in ProviderKinds :
        lock[k] # NoHolder =>
            /\ providerKind[lock[k]] = k
            /\ InsideLock(lock[k])

ServerStep(r) ==
    /\ UNCHANGED <<pvars, evars, qvars, cvars>>
    /\ \/ \E body \in Bodies : Arrive(r, body)
       \/ AcquireProcessLock(r)
       \/ RunStart(r)
       \/ \E ok \in BOOLEAN : RunReset(r, ok)
       \/ \E acts \in Predictions(maxActs), ok \in BOOLEAN :
             Predict(r, acts, ok)
       \/ \E ok \in BOOLEAN : Act(r, ok)
       \/ LoopExit(r)
       \/ \E value \in {0, 1}, ok \in BOOLEAN : RunEvaluate(r, value, ok)
       \/ Respond(r)

NextQueue == \E r \in Requests : ServerStep(r)

SpecQueue ==
    /\ InitServer
    /\ [][NextQueue]_vars
    /\ \A r \in Requests : WF_vars(ServerStep(r))

\* _run_task_sync of request r has raised
TaskFailed(r) == rPc[r] = "returned" /\ runOutcome[r].kind = "raised"

\* C37: a request whose task failed gives up process_lock and does not hold
\* it once answered, and a request that waits for the lock held by a failed
\* task eventually starts executing
C37_FailedTaskFreesWorker ==
    /\ [](\A r \in Requests : rPc[r] = "responded" => process_lock # r)
    /\ \A r \in Requests : TaskFailed(r) ~> (process_lock # r)
    /\ \A r, q \in Requests :
          (TaskFailed(r) /\ process_lock = r /\ rPc[q] = "waitlock")
              ~> (rPc[q] = "start")

\* a request waits for process_lock while the task that holds it has failed
C37_WaitingBehindFailedTask ==
    \E r, q \in Requests :
        /\ TaskFailed(r) /\ process_lock = r
        /\ rPc[q] = "waitlock"

(***************************************************************************)
(* Order of the entries of a list evaluator                                *)
(***************************************************************************)
\* the orders in which n entries can be listed
Orders(n) == {f \in [1..n -> 1..n] : \A i, j \in 1..n : i # j => f[i] # f[j]}

\* the evaluator with its entries listed in the order f
Reordered(ev, f) ==
    [ev EXCEPT !.entries = [i \in 1..Len(ev.entries) |-> ev.entries[f[i]]]]

\* the same score, or the same exception
SameOutcome(a, b) ==
    /\ a.kind = b.kind
    /\ a.exc = b.exc
    /\ a.num * b.den = b.num * a.den

\* C38: evaluate of a list evaluator gives the same score, or raises the same
\* error, in whichever order the entries are listed
C38_OrderDoesNotMatter ==
    (score # NoScore /\ evaluator.kind = "list") =>
        \A f \in Orders(Len(evaluator.entries)) :
            SameOutcome(evaluate(Reordered(evaluator, f)), score)

(***************************************************************************)
(* The agent factory                                                       *)
(***************************************************************************)
\* C39: _create_agent_from_request returns an agent exactly for the model
\* names that contain a supported family name, and a request with such a
\* name never ends with the error of reading args.model
C39_FamilyNamesGetAgent ==
    \A r \in Requests :
        /\ (rPc[r] = "start" /\ benchmark = "osworld") =>
              ((create_agent_from_request(req[r].model_name) = "agent")
                  = (Families(req[r].model_name) # {}))
        /\ (rPc[r] = "returned" /\ Families(req[r].model_name) # {}) =>
              runOutcome[r].error \notin {"NameError", "AttributeError"}

(***************************************************************************)
(* Termination of the step loop                                            *)
(***************************************************************************)
\* C40: a run asks the agent for at most MAX_STEPS predictions, and a run
\* that has started reaches worker_env.evaluate() or ends with an exception,
\* which the handler answers with an error response
C40_RunBoundedAndEnds ==
    /\ [](\A r \in Requests : calls[r].predict <= MAX_STEPS)
    /\ \A r \in Requests :
          (rPc[r] = "start") ~> (rPc[r] = "evaluate" \/ TaskFailed(r))

\* a run whose predictions were all empty action lists has reached evaluate
C40_EmptyPredictionsReachedEvaluate ==
    \E r \in Requests :
        /\ rPc[r] = "evaluate"
        /\ MAX_STEPS > 0
        /\ calls[r].predict = MAX_STEPS
        /\ calls[r].step = 0

====
